---- MODULE Spec2Model ----
(***************************************************************************)
(* Model of the Thai -> Paiboon+ romanization engine (package paiboonizer). *)
(*                                                                         *)
(* A Go string is modelled as the sequence of its code points (runes).     *)
(* A rune is written as a string: a Thai code point by its Unicode name    *)
(* ("KO_KAI" is U+0E01, "SARA_A" is U+0E30, "THANTHAKHAT" is U+0E4C), an   *)
(* ASCII letter by itself, and the other Latin code points by a name:      *)
(* "open_o" U+0254, "schwa" U+0259, "open_e" U+025B, "u_bar" U+0289, the   *)
(* combining marks "grave" U+0300, "acute" U+0301, "circumflex" U+0302,    *)
(* "caron" U+030C, and a precomposed letter as base_mark ("a_grave" is     *)
(* U+00E0).  "x" stands for any code point outside the Thai block.         *)
(***************************************************************************)
EXTENDS Integers, Sequences, FiniteSets, TLC

VARIABLES
    pc,             \* position of the running call
    call,           \* the entry point called and its arguments
    ret,            \* the value(s) returned so far
    dictionary,     \* the word dictionary
    syllableDict,   \* the syllable dictionary
    globalManager,  \* the tokenizer manager: "nil" or "manager"
    specialCasesGlobal,   \* the special cases
    sortedVowelPatterns,  \* the vowel patterns in the order the matcher tries them
    pythainlpFallbackCount,  \* the counter of tokenizer fallbacks
    segs            \* the segments the scanner of the last call consumed

vars == <<pc, call, ret, dictionary, syllableDict, globalManager, specialCasesGlobal,
          sortedVowelPatterns, pythainlpFallbackCount, segs>>

(***************************************************************************)
(* Orthography tables                                                      *)
(***************************************************************************)
\* Consonant mappings
initialConsonants ==
    ("KO_KAI" :> <<"g">>) @@ ("KHO_KHAI" :> <<"k">>) @@ ("KHO_KHUAT" :> <<"k">>) @@ ("KHO_KHWAI" :> <<"k">>) @@
    ("KHO_KHON" :> <<"k">>) @@ ("KHO_RAKHANG" :> <<"k">>) @@ ("NGO_NGU" :> <<"n", "g">>) @@ ("CHO_CHAN" :> <<"j">>) @@
    ("CHO_CHING" :> <<"c", "h">>) @@ ("CHO_CHANG" :> <<"c", "h">>) @@ ("SO_SO" :> <<"s">>) @@ ("CHO_CHOE" :> <<"c", "h">>) @@
    ("YO_YING" :> <<"y">>) @@ ("DO_CHADA" :> <<"d">>) @@ ("TO_PATAK" :> <<"d", "t">>) @@ ("THO_THAN" :> <<"t">>) @@
    ("THO_NANGMONTHO" :> <<"t">>) @@ ("THO_PHUTHAO" :> <<"t">>) @@ ("NO_NEN" :> <<"n">>) @@ ("DO_DEK" :> <<"d">>) @@
    ("TO_TAO" :> <<"d", "t">>) @@ ("THO_THUNG" :> <<"t">>) @@ ("THO_THAHAN" :> <<"t">>) @@ ("THO_THONG" :> <<"t">>) @@
    ("NO_NU" :> <<"n">>) @@ ("BO_BAIMAI" :> <<"b">>) @@ ("PO_PLA" :> <<"b", "p">>) @@ ("PHO_PHUNG" :> <<"p">>) @@
    ("FO_FA" :> <<"f">>) @@ ("PHO_PHAN" :> <<"p">>) @@ ("FO_FAN" :> <<"f">>) @@ ("PHO_SAMPHAO" :> <<"p">>) @@
    ("MO_MA" :> <<"m">>) @@ ("YO_YAK" :> <<"y">>) @@ ("RO_RUA" :> <<"r">>) @@ ("RU" :> <<"r", "u_bar">>) @@
    ("LO_LING" :> <<"l">>) @@ ("LU" :> <<"l", "u_bar">>) @@ ("WO_WAEN" :> <<"w">>) @@ ("SO_SALA" :> <<"s">>) @@
    ("SO_RUSI" :> <<"s">>) @@ ("SO_SUA" :> <<"s">>) @@ ("HO_HIP" :> <<"h">>) @@ ("LO_CHULA" :> <<"l">>) @@
    ("O_ANG" :> <<>>) @@ ("HO_NOKHUK" :> <<"h">>)

finalConsonants ==
    ("KO_KAI" :> <<"k">>) @@ ("KHO_KHAI" :> <<"k">>) @@ ("KHO_KHUAT" :> <<"k">>) @@ ("KHO_KHWAI" :> <<"k">>) @@
    ("KHO_KHON" :> <<"k">>) @@ ("KHO_RAKHANG" :> <<"k">>) @@ ("NGO_NGU" :> <<"n", "g">>) @@ ("CHO_CHAN" :> <<"t">>) @@
    ("CHO_CHING" :> <<"t">>) @@ ("CHO_CHANG" :> <<"t">>) @@ ("SO_SO" :> <<"t">>) @@ ("CHO_CHOE" :> <<"t">>) @@
    ("YO_YING" :> <<"n">>) @@ ("DO_CHADA" :> <<"t">>) @@ ("TO_PATAK" :> <<"t">>) @@ ("THO_THAN" :> <<"t">>) @@
    ("THO_NANGMONTHO" :> <<"t">>) @@ ("THO_PHUTHAO" :> <<"t">>) @@ ("NO_NEN" :> <<"n">>) @@ ("DO_DEK" :> <<"t">>) @@
    ("TO_TAO" :> <<"t">>) @@ ("THO_THUNG" :> <<"t">>) @@ ("THO_THAHAN" :> <<"t">>) @@ ("THO_THONG" :> <<"t">>) @@
    ("NO_NU" :> <<"n">>) @@ ("BO_BAIMAI" :> <<"p">>) @@ ("PO_PLA" :> <<"p">>) @@ ("PHO_PHUNG" :> <<"p">>) @@
    ("FO_FA" :> <<"p">>) @@ ("PHO_PHAN" :> <<"p">>) @@ ("FO_FAN" :> <<"p">>) @@ ("PHO_SAMPHAO" :> <<"p">>) @@
    ("MO_MA" :> <<"m">>) @@ ("YO_YAK" :> <<"i">>) @@ ("RO_RUA" :> <<"n">>) @@ ("LO_LING" :> <<"n">>) @@
    ("WO_WAEN" :> <<"o">>) @@ ("SO_SALA" :> <<"t">>) @@ ("SO_RUSI" :> <<"t">>) @@ ("SO_SUA" :> <<"t">>) @@
    ("HO_HIP" :> <<>>) @@ ("LO_CHULA" :> <<"n">>) @@ ("O_ANG" :> <<>>) @@ ("HO_NOKHUK" :> <<>>)

\* Tone classes
highClass ==
    {"KHO_KHAI", "KHO_KHUAT", "CHO_CHING", "THO_THAN", "THO_THUNG", "PHO_PHUNG",
     "FO_FA", "SO_SALA", "SO_RUSI", "SO_SUA", "HO_HIP"}

midClass ==
    {"KO_KAI", "CHO_CHAN", "DO_CHADA", "TO_PATAK", "DO_DEK", "TO_TAO",
     "BO_BAIMAI", "PO_PLA", "O_ANG"}

lowClass ==
    {"KHO_KHWAI", "KHO_KHON", "KHO_RAKHANG", "NGO_NGU", "CHO_CHANG", "SO_SO",
     "CHO_CHOE", "YO_YING", "THO_NANGMONTHO", "THO_PHUTHAO", "NO_NEN", "THO_THAHAN",
     "THO_THONG", "NO_NU", "PHO_PHAN", "FO_FAN", "PHO_SAMPHAO", "MO_MA",
     "YO_YAK", "RO_RUA", "LO_LING", "WO_WAEN", "LO_CHULA", "HO_NOKHUK"}

\* Common clusters
clusters ==
    (<<"KO_KAI", "RO_RUA">> :> <<"g", "r">>) @@ (<<"KO_KAI", "LO_LING">> :> <<"g", "l">>) @@ (<<"KO_KAI", "WO_WAEN">> :> <<"g", "w">>) @@
    (<<"KHO_KHAI", "RO_RUA">> :> <<"k", "r">>) @@ (<<"KHO_KHAI", "LO_LING">> :> <<"k", "l">>) @@ (<<"KHO_KHAI", "WO_WAEN">> :> <<"k", "w">>) @@
    (<<"KHO_KHWAI", "RO_RUA">> :> <<"k", "r">>) @@ (<<"KHO_KHWAI", "LO_LING">> :> <<"k", "l">>) @@ (<<"KHO_KHWAI", "WO_WAEN">> :> <<"k", "w">>) @@
    (<<"PO_PLA", "RO_RUA">> :> <<"b", "p", "r">>) @@ (<<"PO_PLA", "LO_LING">> :> <<"b", "p", "l">>) @@ (<<"PHO_PHAN", "RO_RUA">> :> <<"p", "r">>) @@
    (<<"PHO_PHAN", "LO_LING">> :> <<"p", "l">>) @@ (<<"PHO_PHUNG", "LO_LING">> :> <<"p", "l">>) @@ (<<"FO_FAN", "RO_RUA">> :> <<"f", "r">>) @@
    (<<"FO_FAN", "LO_LING">> :> <<"f", "l">>) @@ (<<"TO_TAO", "RO_RUA">> :> <<"d", "t", "r">>) @@ (<<"THO_THAHAN", "RO_RUA">> :> <<"s">>) @@
    (<<"DO_DEK", "RO_RUA">> :> <<"d", "r">>) @@ (<<"HO_HIP", "RO_RUA">> :> <<"r">>) @@ (<<"HO_HIP", "LO_LING">> :> <<"l">>) @@
    (<<"HO_HIP", "MO_MA">> :> <<"m">>) @@ (<<"HO_HIP", "NO_NU">> :> <<"n">>) @@ (<<"HO_HIP", "WO_WAEN">> :> <<"w">>) @@
    (<<"HO_HIP", "YO_YAK">> :> <<"y">>) @@ (<<"HO_HIP", "NGO_NGU">> :> <<"n", "g">>) @@ (<<"SO_SUA", "RO_RUA">> :> <<"s">>) @@
    (<<"SO_SALA", "RO_RUA">> :> <<"s">>) @@ (<<"SO_SO", "RO_RUA">> :> <<"s">>) @@ (<<"SO_SUA", "WO_WAEN">> :> <<"s", "w">>) @@
    (<<"SO_SO", "WO_WAEN">> :> <<"s", "w">>) @@ (<<"BO_BAIMAI", "RO_RUA">> :> <<"b", "r">>) @@ (<<"BO_BAIMAI", "LO_LING">> :> <<"b", "l">>)

\* HO_HIP-leading clusters use high class for tone rules
clusterToneClass ==
    (<<"HO_HIP", "RO_RUA">> :> "high") @@ (<<"HO_HIP", "LO_LING">> :> "high") @@ (<<"HO_HIP", "MO_MA">> :> "high") @@
    (<<"HO_HIP", "NO_NU">> :> "high") @@ (<<"HO_HIP", "WO_WAEN">> :> "high") @@ (<<"HO_HIP", "YO_YAK">> :> "high") @@
    (<<"HO_HIP", "NGO_NGU">> :> "high")

\* the consonant and vowel code points of isConsonantRune / isVowelRune
Consonants ==
    {"KO_KAI", "KHO_KHAI", "KHO_KHUAT", "KHO_KHWAI", "KHO_KHON", "KHO_RAKHANG",
     "NGO_NGU", "CHO_CHAN", "CHO_CHING", "CHO_CHANG", "SO_SO", "CHO_CHOE",
     "YO_YING", "DO_CHADA", "TO_PATAK", "THO_THAN", "THO_NANGMONTHO", "THO_PHUTHAO",
     "NO_NEN", "DO_DEK", "TO_TAO", "THO_THUNG", "THO_THAHAN", "THO_THONG",
     "NO_NU", "BO_BAIMAI", "PO_PLA", "PHO_PHUNG", "FO_FA", "PHO_PHAN",
     "FO_FAN", "PHO_SAMPHAO", "MO_MA", "YO_YAK", "RO_RUA", "RU",
     "LO_LING", "LU", "WO_WAEN", "SO_SALA", "SO_RUSI", "SO_SUA",
     "HO_HIP", "LO_CHULA", "O_ANG", "HO_NOKHUK"}

Vowels ==
    {"SARA_A", "MAI_HAN_AKAT", "SARA_AA", "SARA_I", "SARA_II", "SARA_UE",
     "SARA_UEE", "SARA_U", "SARA_UU", "SARA_E", "SARA_AE", "SARA_O",
     "SARA_AI_MAIMUAN", "SARA_AI_MAIMALAI", "LAKKHANGYAO", "SARA_AM"}

(***************************************************************************)
(* Helper functions                                                        *)
(***************************************************************************)
isConsonantRune(r) == r \in Consonants

isVowelRune(r) == r \in Vowels

isConsonant(s) == s \in Consonants

isVowel(s) == s \in Vowels

isLeadingVowel(s) ==
    s = "SARA_E" \/ s = "SARA_AE" \/ s = "SARA_O" \/ s = "SARA_AI_MAIMALAI" \/ s = "SARA_AI_MAIMUAN"

isToneMark(s) == s \in {"MAI_EK", "MAI_THO", "MAI_TRI", "MAI_CHATTAWA"}

isRomanVowel(r) == r \in {"a", "e", "i", "o", "u", "schwa", "open_e", "open_o", "u_bar"}

\* v, ok := m[k]: the value of the key, or d when the map has no such key
Lookup(m, k, d) == IF k \in DOMAIN m THEN m[k] ELSE d

\* all sequences over S of length at most n
SeqsUpTo(S, n) == UNION {[1..k -> S] : k \in 0..n}

\* runes[from..] of a 1-based sequence
Tail1(s, from) == SubSeq(s, from, Len(s))

(***************************************************************************)
(* Silent-consonant stripper                                               *)
(***************************************************************************)
RECURSIVE RemoveSilentFrom(_, _)
\* the loop of RemoveSilentConsonants from index i (1-based) on
RemoveSilentFrom(rs, k) ==
    IF k > Len(rs) THEN <<>>
    ELSE IF k + 1 <= Len(rs) /\ rs[k + 1] = "THANTHAKHAT"
        THEN RemoveSilentFrom(rs, k + 2)
    ELSE IF k + 2 <= Len(rs) /\ isConsonantRune(rs[k]) /\ isVowelRune(rs[k + 1])
            /\ rs[k + 2] = "THANTHAKHAT"
        THEN RemoveSilentFrom(rs, k + 3)
    ELSE <<rs[k]>> \o RemoveSilentFrom(rs, k + 1)

RemoveSilentConsonants(text) == RemoveSilentFrom(text, 1)

(***************************************************************************)
(* Tone calculator.  Tone numbers: 0 mid, 1 low, 2 high, 3 falling,        *)
(* 4 rising.  The empty tone mark is "".                                   *)
(***************************************************************************)
\* calculateToneNum without the vowel-length test on low-class dead syllables
calculateToneNumNoLength(toneClass, isLive, toneMark, isLongVowelParam) ==
    IF toneMark = "" THEN
        CASE toneClass = "low" -> IF isLive THEN 0 ELSE 2
          [] toneClass = "mid" -> IF isLive THEN 0 ELSE 1
          [] toneClass = "high" -> IF isLive THEN 4 ELSE 1
          [] OTHER -> 0
    ELSE
        CASE toneMark = "MAI_EK" -> IF toneClass = "low" THEN 3 ELSE 1
          [] toneMark = "MAI_THO" -> IF toneClass = "low" THEN 2 ELSE 3
          [] toneMark = "MAI_TRI" -> IF toneClass = "mid" THEN 2 ELSE 0
          [] toneMark = "MAI_CHATTAWA" -> IF toneClass = "mid" THEN 4 ELSE 0
          [] OTHER -> 0

calculateToneNum(toneClass, isLive, toneMark, isLongVowelParam) ==
    IF toneMark = "" THEN
        \* Inherent tone rules
        CASE toneClass = "low" ->
                IF isLive THEN 0
                ELSE IF isLongVowelParam THEN 3 ELSE 2
          [] toneClass = "mid" -> IF isLive THEN 0 ELSE 1
          [] toneClass = "high" -> IF isLive THEN 4 ELSE 1
          [] OTHER -> 0
    ELSE
        \* Tone mark rules
        CASE toneMark = "MAI_EK" -> IF toneClass = "low" THEN 3 ELSE 1
          [] toneMark = "MAI_THO" -> IF toneClass = "low" THEN 2 ELSE 3
          [] toneMark = "MAI_TRI" -> IF toneClass = "mid" THEN 2 ELSE 0
          [] toneMark = "MAI_CHATTAWA" -> IF toneClass = "mid" THEN 4 ELSE 0
          [] OTHER -> 0

(***************************************************************************)
(* Special cases                                                           *)
(***************************************************************************)
\* the Go map of a map literal, given as its set of <<key, value>> entries
MapOf(entries) ==
    [k \in {e[1] : e \in entries} |-> (CHOOSE e \in entries : e[1] = k)[2]]

\* the literal specialCasesGlobal is declared with: irregular words, loanwords
\* and common syllables
SpecialCasesLiteral ==
    MapOf({
        <<<<"THO_THONG", "RO_RUA", "RO_RUA", "MO_MA">>, <<"t", "a", "m">>>>,
        <<<<"KO_KAI", "RO_RUA", "RO_RUA", "MO_MA">>, <<"g", "a", "m">>>>,
        <<<<"PHO_PHAN", "RO_RUA", "RO_RUA", "KHO_KHWAI">>, <<"p", "a_acute", "k">>>>,
        <<<<"WO_WAEN", "RO_RUA", "RO_RUA", "KHO_KHWAI">>, <<"w", "a_acute", "k">>>>,
        <<<<"SO_SUA", "RO_RUA", "RO_RUA">>, <<"s", "a_caron", "n">>>>,
        <<<<"BO_BAIMAI", "RO_RUA", "RO_RUA">>, <<"b", "a", "n">>>>,
        <<<<"CHO_CHAN", "RO_RUA", "RO_RUA">>, <<"j", "a", "n">>>>,
        <<<<"WO_WAEN", "SARA_I", "THO_THAHAN", "YO_YAK">>, <<"w", "i_acute", "t", "-", "t", "a_acute", "~", "y", "a_acute">>>>,
        <<<<"WO_WAEN", "SARA_I", "THO_THAHAN", "YO_YAK", "SARA_U">>, <<"w", "i_acute", "t", "-", "t", "a_acute", "~", "y", "u_acute">>>>,
        <<<<"WO_WAEN", "SARA_I", "THO_THAHAN", "YO_YAK", "SARA_AA">>, <<"w", "i_acute", "t", "-", "t", "a_acute", "~", "y", "a", "a">>>>,
        <<<<"SO_SALA", "SARA_UE", "KO_KAI", "SO_RUSI", "SARA_AA">>, <<"s", "u_bar", "grave", "k", "-", "s", "a_caron", "a">>>>,
        <<<<"SO_SUA", "MAI_HAN_AKAT", "TO_TAO", "WO_WAEN", "THANTHAKHAT">>, <<"s", "a_grave", "t">>>>,
        <<<<"CHO_CHAN", "RO_RUA", "SARA_I", "NGO_NGU">>, <<"j", "i", "n", "g">>>>,
        <<<<"THO_THAHAN", "RO_RUA", "SARA_AA", "BO_BAIMAI">>, <<"s", "a_circumflex", "a", "p">>>>,
        <<<<"SO_SALA", "SARA_I", "LO_LING", "PO_PLA">>, <<"s", "i_caron", "n", "-", "l", "a_acute", "~", "b", "p", "a_grave">>>>,
        <<<<"SO_SALA", "SARA_I", "LO_LING", "PO_PLA", "SARA_A">>, <<"s", "i_caron", "n", "-", "l", "a_acute", "~", "b", "p", "a_grave">>>>,
        <<<<"SO_SUA", "NGO_NGU", "KHO_RAKHANG", "THANTHAKHAT">>, <<"s", "o_caron", "n", "g">>>>,
        <<<<"NO_NU", "SARA_I", "PHO_PHAN", "PHO_PHAN", "SARA_AA", "NO_NU">>, <<"n", "i_acute", "p", "-", "p", "a", "a", "n">>>>,
        <<<<"PO_PLA", "RO_RUA", "SARA_I", "NO_NU", "SARA_I", "PHO_PHAN", "PHO_PHAN", "SARA_AA", "NO_NU">>, <<"b", "p", "a_grave", "~", "r", "i_acute", "-", "n", "i_acute", "p", "-", "p", "a", "a", "n">>>>,
        <<<<"PO_PLA", "RO_RUA", "SARA_A", "SO_SUA", "NGO_NGU", "KHO_KHWAI", "THANTHAKHAT">>, <<"b", "p", "r", "a_grave", "~", "s", "o_caron", "n", "g">>>>,
        <<<<"MO_MA", "NO_NU", "TO_TAO", "THANTHAKHAT">>, <<"m", "o", "n">>>>,
        <<<<"SO_SUA", "WO_WAEN", "DO_DEK", "MO_MA", "NO_NU", "TO_TAO", "THANTHAKHAT">>, <<"s", "u_grave", "u", "a", "t", "-", "m", "o", "n">>>>,
        <<<<"O_ANG", "PHO_SAMPHAO", "MAI_HAN_AKAT", "YO_YAK">>, <<"a_grave", "~", "p", "a", "i">>>>,
        <<<<"SARA_E", "MO_MA", "TO_TAO", "TO_TAO", "SARA_AA">>, <<"m", "e_circumflex", "e", "t", "-", "d", "t", "a", "a">>>>,
        <<<<"KO_KAI", "RO_RUA", "SARA_U", "NO_NEN", "SARA_AA">>, <<"g", "a_grave", "~", "r", "u_acute", "~", "n", "a", "a">>>>,
        <<<<"LO_LING", "MAI_HAN_AKAT", "KO_KAI", "SO_RUSI", "NO_NEN", "SARA_A">>, <<"l", "a_acute", "k", "-", "s", "a_grave", "~", "n", "a_grave">>>>,
        <<<<"PHO_PHAN", "RU", "SO_RUSI", "PHO_SAMPHAO", "SARA_AA", "KHO_KHWAI", "MO_MA">>, <<"p", "r", "u_bar", "acute", "t", "-", "s", "a_grave", "~", "p", "a", "a", "-", "k", "o", "m">>>>,
        <<<<"NGO_NGU", "O_ANG">>, <<"n", "g", "open_o", "open_o">>>>,
        <<<<"NGO_NGU", "SARA_AA">>, <<"n", "g", "a", "a">>>>,
        <<<<"NGO_NGU", "SARA_UU">>, <<"n", "g", "u", "u">>>>,
        <<<<"SARA_AE", "NGO_NGU">>, <<"n", "g", "open_e", "open_e">>>>,
        <<<<"O_ANG", "YO_YAK", "SARA_UU", "MAI_EK">>, <<"y", "u_grave", "u">>>>,
        <<<<"O_ANG", "YO_YAK", "SARA_AA", "KO_KAI">>, <<"y", "a_grave", "a", "k">>>>,
        <<<<"O_ANG", "SARA_A", "SARA_AI_MAIMALAI", "RO_RUA">>, <<"a_grave", "~", "r", "a", "i">>>>,
        <<<<"NO_NU", "MAI_THO", "SARA_AM">>, <<"n", "a_acute", "m">>>>,
        <<<<"SARA_AI_MAIMUAN", "CHO_CHAN">>, <<"j", "a", "i">>>>,
        <<<<"NO_NU", "MAI_THO", "SARA_AM", "SARA_AI_MAIMUAN", "CHO_CHAN">>, <<"n", "a_acute", "m", "-", "j", "a", "i">>>>,
        <<<<"HO_HIP", "NO_NU", "MAI_HAN_AKAT", "NGO_NGU", "SO_SUA", "SARA_UEE", "O_ANG">>, <<"n", "a_caron", "n", "g", "-", "s", "u_bar", "caron", "u_bar">>>>,
        <<<<"PO_PLA", "RO_RUA", "SARA_A", "SARA_E", "THO_THAHAN", "SO_SALA">>, <<"b", "p", "r", "a_grave", "~", "t", "e_circumflex", "e", "t">>>>,
        <<<<"FO_FA", "RO_RUA", "MAI_HAN_AKAT", "MAI_EK", "NGO_NGU">>, <<"f", "a_grave", "~", "r", "a_grave", "n", "g">>>>,
        <<<<"FO_FA", "RO_RUA", "MAI_HAN_AKAT", "MAI_EK", "NGO_NGU", "SARA_E", "SO_SALA", "SO_SUA">>, <<"f", "a_grave", "~", "r", "a_grave", "n", "g", "-", "s", "e_grave", "e", "t">>>>,
        <<<<"KO_KAI", "RO_RUA", "SARA_A">>, <<"g", "r", "a_grave">>>>,
        <<<<"PO_PLA", "RO_RUA", "SARA_A">>, <<"b", "p", "r", "a_grave">>>>,
        <<<<"TO_TAO", "RO_RUA", "SARA_A">>, <<"d", "t", "r", "a_grave">>>>,
        <<<<"KO_KAI", "RO_RUA", "SARA_A", "HO_HIP", "SARA_AA", "YO_YAK">>, <<"g", "r", "a_grave", "~", "h", "a_caron", "a", "i">>>>,
        <<<<"KO_KAI", "RO_RUA", "SARA_A", "THO_THAHAN", "SARA_AM">>, <<"g", "r", "a_grave", "~", "t", "a", "m">>>>,
        <<<<"KO_KAI", "RO_RUA", "SARA_A", "TO_TAO", "SARA_U", "MAI_THO", "NO_NU">>, <<"g", "r", "a_grave", "~", "d", "t", "u_circumflex", "n">>>>,
        <<<<"KO_KAI", "RO_RUA", "SARA_A", "SARA_E", "PO_PLA", "MAI_CHATTAWA", "SARA_AA">>, <<"g", "r", "a_grave", "~", "b", "p", "a_caron", "o">>>>,
        <<<<"KO_KAI", "RO_RUA", "SARA_A", "DO_DEK", "SARA_AA", "SO_RUSI">>, <<"g", "r", "a_grave", "~", "d", "a_grave", "a", "t">>>>,
        <<<<"KO_KAI", "RO_RUA", "SARA_A", "CHO_CHAN", "KO_KAI">>, <<"g", "r", "a_grave", "~", "j", "o_grave", "k">>>>,
        <<<<"PO_PLA", "RO_RUA", "SARA_A", "SO_SUA", "SARA_AA", "THO_THAHAN">>, <<"b", "p", "r", "a_grave", "~", "s", "a_grave", "a", "t">>>>,
        <<<<"PO_PLA", "RO_RUA", "SARA_A", "CHO_CHANG", "SARA_AA">>, <<"b", "p", "r", "a_grave", "~", "c", "h", "a", "a">>>>,
        <<<<"PO_PLA", "RO_RUA", "SARA_A", "SARA_O", "YO_YAK", "CHO_CHANG", "NO_NU", "THANTHAKHAT">>, <<"b", "p", "r", "a_grave", "~", "y", "o_grave", "o", "t">>>>,
        <<<<"THO_THONG", "SARA_U", "RO_RUA", "SARA_A">>, <<"t", "u_acute", "~", "r", "a_acute">>>>,
        <<<<"THO_THONG", "SARA_U", "RO_RUA", "KO_KAI", "SARA_I", "CHO_CHAN">>, <<"t", "u_acute", "~", "r", "a_acute", "~", "g", "i_grave", "t">>>>,
        <<<<"HO_HIP", "SARA_AA", "YO_YAK">>, <<"h", "a_caron", "a", "i">>>>,
        <<<<"BO_BAIMAI", "SARA_AA", "YO_YAK">>, <<"b", "a", "a", "i">>>>,
        <<<<"SO_SUA", "SARA_AA", "YO_YAK">>, <<"s", "a_caron", "a", "i">>>>,
        <<<<"DO_DEK", "SARA_AA", "YO_YAK">>, <<"d", "a", "a", "i">>>>,
        <<<<"KHO_KHAI", "SARA_AA", "WO_WAEN">>, <<"k", "a_caron", "a", "o">>>>,
        <<<<"SARA_E", "KHO_KHAI", "MAI_THO", "SARA_AA">>, <<"k", "a_circumflex", "o">>>>,
        <<<<"KHO_KHAI", "SARA_AA">>, <<"k", "a_caron", "a">>>>,
        <<<<"KHO_KHAI", "MAI_THO", "SARA_AA", "WO_WAEN">>, <<"k", "a_circumflex", "a", "o">>>>,
        <<<<"DO_DEK", "SARA_II">>, <<"d", "i", "i">>>>,
        <<<<"MO_MA", "SARA_II">>, <<"m", "i", "i">>>>,
        <<<<"THO_THAHAN", "SARA_II", "MAI_EK">>, <<"t", "i_circumflex", "i">>>>,
        <<<<"NO_NU", "SARA_II", "MAI_THO">>, <<"n", "i_acute", "i">>>>,
        <<<<"SARA_AI_MAIMALAI", "DO_DEK", "MAI_THO">>, <<"d", "a_circumflex", "a", "i">>>>,
        <<<<"SARA_AI_MAIMALAI", "PO_PLA">>, <<"b", "p", "a", "i">>>>,
        <<<<"MO_MA", "SARA_AA">>, <<"m", "a", "a">>>>,
        <<<<"HO_HIP", "SARA_AA">>, <<"h", "a_caron", "a">>>>,
        <<<<"RO_RUA", "SARA_UU", "MAI_THO">>, <<"r", "u_acute", "u">>>>,
        <<<<"CHO_CHAN", "MAI_HAN_AKAT", "KO_KAI">>, <<"j", "a_grave", "k">>>>,
        <<<<"SARA_E", "KO_KAI", "SARA_I", "DO_DEK">>, <<"g", "schwa", "grave", "schwa", "t">>>>,
        <<<<"SARA_AI_MAIMUAN", "HO_HIP", "MAI_THO">>, <<"h", "a_circumflex", "i">>>>,
        <<<<"RO_RUA", "O_ANG", "BO_BAIMAI">>, <<"r", "open_o", "circumflex", "open_o", "p">>>>,
        <<<<"DO_DEK", "SARA_UU">>, <<"d", "u", "u">>>>,
        <<<<"KO_KAI", "MAITAIKHU">>, <<"g", "open_o", "circumflex", "open_o">>>>,
        <<<<"SARA_AE", "LO_LING", "MAI_THO", "WO_WAEN">>, <<"l", "open_e", "acute", "open_e", "o">>>>,
        <<<<"SARA_E", "RO_RUA", "SARA_II", "YO_YAK", "BO_BAIMAI">>, <<"r", "i_circumflex", "i", "a", "p">>>>,
        <<<<"SARA_E", "RO_RUA", "SARA_II", "YO_YAK", "NGO_NGU">>, <<"r", "i", "i", "a", "n", "g">>>>,
        <<<<"KHO_KHWAI", "SARA_AM">>, <<"k", "a", "m">>>>,
        <<<<"PHO_PHAN", "SARA_UU", "DO_DEK">>, <<"p", "u_circumflex", "u", "t">>>>,
        <<<<"HO_HIP", "NO_NU", "MAI_HAN_AKAT", "KO_KAI">>, <<"n", "a_grave", "k">>>>,
        <<<<"HO_HIP", "NO_NU", "SARA_AA">>, <<"n", "a_caron", "a">>>>,
        <<<<"HO_HIP", "MO_MA", "DO_DEK">>, <<"m", "o_grave", "t">>>>,
        <<<<"HO_HIP", "MO_MA", "SARA_AA", "YO_YAK">>, <<"m", "a_caron", "a", "i">>>>,
        <<<<"HO_HIP", "MO_MA", "SARA_UU">>, <<"m", "u_caron", "u">>>>,
        <<<<"HO_HIP", "LO_LING", "SARA_AA", "YO_YAK">>, <<"l", "a_caron", "a", "i">>>>,
        <<<<"HO_HIP", "LO_LING", "MAI_HAN_AKAT", "NGO_NGU">>, <<"l", "a_caron", "n", "g">>>>,
        <<<<"HO_HIP", "LO_LING", "MAI_HAN_AKAT", "BO_BAIMAI">>, <<"l", "a_grave", "p">>>>,
        <<<<"HO_HIP", "WO_WAEN", "MAI_HAN_AKAT", "NGO_NGU">>, <<"w", "a_caron", "n", "g">>>>,
        <<<<"HO_HIP", "WO_WAEN", "SARA_AA", "NO_NU">>, <<"w", "a_caron", "a", "n">>>>,
        <<<<"HO_HIP", "WO_WAEN", "MAI_EK", "SARA_AA", "NGO_NGU">>, <<"w", "a_grave", "a", "n", "g">>>>,
        <<<<"SARA_E", "DO_DEK", "SARA_UEE", "O_ANG", "NO_NU">>, <<"d", "u_bar", "u_bar", "a", "n">>>>,
        <<<<"SARA_E", "RO_RUA", "SARA_UEE", "O_ANG">>, <<"r", "u_bar", "u_bar", "a">>>>,
        <<<<"SARA_E", "SO_SUA", "SARA_UEE", "O_ANG">>, <<"s", "u_bar", "caron", "u_bar", "a">>>>,
        <<<<"SARA_E", "PHO_PHAN", "SARA_UEE", "MAI_EK", "O_ANG">>, <<"p", "u_bar", "circumflex", "u_bar", "a">>>>,
        <<<<"SARA_E", "MO_MA", "SARA_UEE", "O_ANG", "NGO_NGU">>, <<"m", "u_bar", "u_bar", "a", "n", "g">>>>,
        <<<<"SARA_E", "LO_LING", "SARA_UEE", "O_ANG", "KO_KAI">>, <<"l", "u_bar", "circumflex", "u_bar", "a", "k">>>>,
        <<<<"SARA_E", "LO_LING", "SARA_UEE", "O_ANG", "DO_DEK">>, <<"l", "u_bar", "circumflex", "u_bar", "a", "t">>>>,
        <<<<"HO_HIP", "LO_LING", "O_ANG", "NO_NU">>, <<"l", "open_o", "caron", "open_o", "n">>>>,
        <<<<"HO_HIP", "LO_LING", "O_ANG", "MO_MA">>, <<"l", "open_o", "caron", "open_o", "m">>>>,
        <<<<"BO_BAIMAI", "WO_WAEN", "CHO_CHANG">>, <<"b", "u_grave", "u", "a", "t">>>>,
        <<<<"SO_SUA", "WO_WAEN", "DO_DEK">>, <<"s", "u_grave", "u", "a", "t">>>>,
        <<<<"SO_SUA", "WO_WAEN", "MO_MA">>, <<"s", "u_caron", "a", "m">>>>,
        <<<<"KHO_KHWAI", "WO_WAEN", "RO_RUA">>, <<"k", "u", "u", "a", "n">>>>,
        <<<<"CHO_CHAN", "MAI_HAN_AKAT", "BO_BAIMAI">>, <<"j", "a_grave", "p">>>>,
        <<<<"WO_WAEN", "MAI_HAN_AKAT", "DO_DEK">>, <<"w", "a_acute", "t">>>>,
        <<<<"PHO_PHUNG", "LO_LING">>, <<"p", "o_caron", "n">>>>,
        <<<<"SARA_AI_MAIMUAN", "KHO_KHWAI", "RO_RUA">>, <<"k", "r", "a", "i">>>>,
        <<<<"O_ANG", "SARA_AA", "YO_YAK", "SARA_U">>, <<"a", "a", "-", "y", "u_acute">>>>,
        <<<<"CHO_CHAN", "SARA_U", "DO_DEK">>, <<"j", "u_grave", "t">>>>,
        <<<<"SARA_E", "HO_HIP", "TO_TAO", "SARA_U">>, <<"h", "e_grave", "e", "t">>>>,
        <<<<"BO_BAIMAI", "WO_WAEN", "KO_KAI">>, <<"b", "u_grave", "u", "a", "k">>>>,
        <<<<"PHO_PHAN", "WO_WAEN", "KO_KAI">>, <<"p", "u_circumflex", "u", "a", "k">>>>,
        <<<<"PHO_PHUNG", "MAI_HAN_AKAT", "WO_WAEN">>, <<"p", "u_caron", "a">>>>,
        <<<<"TO_TAO", "MAI_HAN_AKAT", "WO_WAEN">>, <<"d", "t", "u", "a">>>>,
        <<<<"O_ANG", "NO_NU", "SARA_U">>, <<"a_grave", "~", "n", "u_acute">>>>,
        <<<<"O_ANG", "MAI_HAN_AKAT", "SO_SALA">>, <<"a_grave", "t">>>>,
        <<<<"O_ANG", "SARA_AA", "THO_THAHAN", "SARA_I", "TO_TAO", "YO_YAK", "THANTHAKHAT">>, <<"a", "a", "-", "t", "i_acute", "t">>>>,
        <<<<"SARA_E", "BO_BAIMAI", "SARA_UEE", "MAI_THO", "O_ANG", "NGO_NGU">>, <<"b", "u_bar", "circumflex", "u_bar", "a", "n", "g">>>>,
        <<<<"SARA_E", "MO_MA", "SARA_UEE", "MAI_EK", "O_ANG">>, <<"m", "u_bar", "circumflex", "u_bar", "a">>>>,
        <<<<"SARA_E", "RO_RUA", "SARA_UEE", "MAI_EK", "O_ANG", "NGO_NGU">>, <<"r", "u_bar", "circumflex", "u_bar", "a", "n", "g">>>>,
        <<<<"CHO_CHING", "LO_LING", "SARA_AA", "DO_DEK">>, <<"c", "h", "a_grave", "~", "l", "a_grave", "a", "t">>>>,
        <<<<"CHO_CHING", "LO_LING", "O_ANG", "NGO_NGU">>, <<"c", "h", "a_grave", "~", "l", "open_o", "caron", "open_o", "n", "g">>>>,
        <<<<"KO_KAI", "SARA_AA", "NO_NU">>, <<"g", "a", "a", "n">>>>,
        <<<<"SO_SUA", "SARA_I", "NGO_NGU", "HO_HIP", "SARA_AA">>, <<"s", "i_caron", "n", "g", "-", "h", "a_caron", "a">>>>,
        <<<<"KHO_KHWAI", "MO_MA">>, <<"k", "o", "m">>>>,
        <<<<"O_ANG", "O_ANG", "KO_KAI">>, <<"open_o", "grave", "open_o", "k">>>>,
        <<<<"NO_NU", "SARA_II", "MAI_EK">>, <<"n", "i_circumflex", "i">>>>,
        <<<<"SARA_E", "LO_LING", "SARA_AA">>, <<"l", "a", "o">>>>,
        <<<<"SARA_E", "LO_LING", "SARA_II", "MAI_THO", "YO_YAK", "NGO_NGU">>, <<"l", "i_acute", "i", "a", "n", "g">>>>,
        <<<<"SARA_E", "SO_SUA", "SARA_II", "MAI_EK", "YO_YAK", "NGO_NGU">>, <<"s", "i_grave", "i", "a", "n", "g">>>>,
        <<<<"SARA_E", "PO_PLA", "LO_LING", "SARA_II", "MAI_EK", "YO_YAK", "NO_NU">>, <<"b", "p", "l", "i_grave", "i", "a", "n">>>>,
        <<<<"SARA_E", "RO_RUA", "SARA_II", "YO_YAK", "NO_NU">>, <<"r", "i", "i", "a", "n">>>>,
        <<<<"SARA_E", "KHO_KHAI", "SARA_II", "YO_YAK", "NO_NU">>, <<"k", "i_caron", "i", "a", "n">>>>,
        <<<<"SARA_E", "RO_RUA", "SARA_UEE", "MAI_EK", "O_ANG", "YO_YAK">>, <<"r", "u_bar", "circumflex", "u_bar", "a", "i">>>>,
        <<<<"HO_HIP", "WO_WAEN", "SARA_AA", "DO_DEK">>, <<"w", "a_grave", "a", "t">>>>,
        <<<<"HO_HIP", "WO_WAEN", "MAI_HAN_AKAT", "MAI_EK", "NO_NU">>, <<"w", "a_grave", "n">>>>,
        <<<<"HO_HIP", "WO_WAEN", "SARA_AA", "YO_YAK">>, <<"w", "a_caron", "a", "i">>>>,
        <<<<"HO_HIP", "WO_WAEN", "O_ANG">>, <<"w", "open_o", "caron", "open_o">>>>,
        <<<<"PHO_PHUNG", "MAI_THO", "SARA_AA">>, <<"p", "a_circumflex", "a">>>>,
        <<<<"PHO_PHUNG", "SARA_UU", "MAI_THO">>, <<"p", "u_circumflex", "u">>>>,
        <<<<"PHO_PHUNG", "SARA_II">>, <<"p", "i_caron", "i">>>>,
        <<<<"SARA_E", "THO_THAHAN", "MAI_EK", "SARA_AA">>, <<"t", "a_circumflex", "o">>>>,
        <<<<"SARA_E", "KO_KAI", "MAI_EK", "SARA_AA">>, <<"g", "a_grave", "o">>>>,
        <<<<"THO_THONG", "NO_NU", "SARA_AA">>, <<"t", "a_acute", "~", "n", "a", "a">>>>,
        <<<<"THO_THONG", "NO_NU">>, <<"t", "o", "n">>>>,
        <<<<"KO_KAI", "MAI_HAN_AKAT", "NO_NU">>, <<"g", "a", "n">>>>,
        <<<<"CHO_CHANG", "SARA_I", "DO_DEK">>, <<"c", "h", "i_acute", "t">>>>,
        <<<<"SARA_O", "KO_KAI", "NO_NU">>, <<"g", "o", "o", "n">>>>,
        <<<<"KO_KAI", "SARA_AA", "RO_RUA", "SARA_O", "KO_KAI", "NO_NU">>, <<"g", "a", "a", "n", "-", "g", "o", "o", "n">>>>,
        <<<<"SARA_E", "LO_LING", "SARA_II", "MAI_THO", "YO_YAK", "NGO_NGU", "DO_DEK", "SARA_UU">>, <<"l", "i_acute", "i", "a", "n", "g", "-", "d", "u", "u">>>>,
        <<<<"BO_BAIMAI", "MAI_HAN_AKAT", "NO_NU", "SARA_E", "THO_THAHAN", "SARA_I", "NGO_NGU">>, <<"b", "a", "n", "-", "t", "schwa", "schwa", "n", "g">>>>,
        <<<<"WO_WAEN", "MAI_HAN_AKAT", "NO_NU">>, <<"w", "a", "n">>>>,
        <<<<"SARA_AE", "NO_NU", "MAI_EK">>, <<"n", "open_e", "circumflex", "open_e">>>>,
        <<<<"NO_NU", "O_ANG", "NO_NU">>, <<"n", "open_o", "open_o", "n">>>>,
        <<<<"LO_LING", "O_ANG", "YO_YAK">>, <<"l", "open_o", "open_o", "i">>>>,
        <<<<"KHO_KHWAI", "SARA_AA", "YO_YAK">>, <<"k", "a", "a", "i">>>>,
        <<<<"THO_THUNG", "SARA_UU">>, <<"t", "u_caron", "u">>>>,
        <<<<"SARA_E", "HO_HIP", "YO_YAK", "SARA_II", "YO_YAK", "BO_BAIMAI">>, <<"y", "i_grave", "i", "a", "p">>>>,
        <<<<"PHO_PHAN", "RO_RUA", "SARA_U", "MAI_EK", "NGO_NGU">>, <<"p", "r", "u_circumflex", "n", "g">>>>,
        <<<<"PO_PLA", "O_ANG", "NGO_NGU">>, <<"b", "p", "open_o", "open_o", "n", "g">>>>,
        <<<<"KO_KAI", "TO_PATAK">>, <<"g", "o_grave", "t">>>>,
        <<<<"PO_PLA", "RO_RUA", "SARA_AA", "KO_KAI", "TO_PATAK">>, <<"b", "p", "r", "a", "a", "-", "g", "o_grave", "t">>>>,
        <<<<"TO_TAO", "MAI_HAN_AKAT", "YO_YING">>, <<"d", "t", "a", "n">>>>,
        <<<<"TO_TAO", "MAI_HAN_AKAT", "YO_YING", "YO_YING", "SARA_UU">>, <<"d", "t", "a", "n", "-", "y", "u", "u">>>>,
        <<<<"SO_SUA", "THO_THUNG", "SARA_AA", "NO_NU">>, <<"s", "a_grave", "~", "t", "a_caron", "a", "n">>>>,
        <<<<"SO_SUA", "THO_THUNG", "SARA_AA", "NO_NU", "THO_THAHAN", "SARA_II", "MAI_EK">>, <<"s", "a_grave", "~", "t", "a_caron", "a", "n", "-", "t", "i_circumflex", "i">>>>,
        <<<<"THO_THAHAN", "MAI_HAN_AKAT", "SO_SALA", "NO_NU">>, <<"t", "a_acute", "t", "-", "s", "a_grave", "~", "n", "a_acute">>>>,
        <<<<"THO_THAHAN", "MAI_HAN_AKAT", "SO_SALA", "NO_NU", "SARA_A">>, <<"t", "a_acute", "t", "-", "s", "a_grave", "~", "n", "a_acute">>>>,
        <<<<"THO_THAHAN", "SARA_AA", "NGO_NGU">>, <<"t", "a", "a", "n", "g">>>>,
        <<<<"SARA_AE", "DO_DEK", "DO_DEK">>, <<"d", "open_e", "grave", "open_e", "t">>>>,
        <<<<"TO_TAO", "SARA_AA", "KO_KAI">>, <<"d", "t", "a_grave", "a", "k">>>>,
        <<<<"LO_LING", "SARA_AM">>, <<"l", "a", "m">>>>,
        <<<<"THO_THAHAN", "MAI_EK", "SARA_AA">>, <<"t", "a_circumflex", "a">>>>,
        <<<<"SARA_AE", "YO_YAK", "MAI_THO", "NGO_NGU">>, <<"y", "open_e", "acute", "open_e", "n", "g">>>>,
        <<<<"THO_THAHAN", "WO_WAEN", "NO_NU">>, <<"t", "u", "u", "a", "n">>>>,
        <<<<"THO_THAHAN", "BO_BAIMAI">>, <<"t", "o_acute", "p">>>>,
        <<<<"LO_LING", "SARA_I", "KHO_KHAI", "SARA_I", "TO_TAO">>, <<"l", "i_acute", "-", "k", "i_grave", "t">>>>,
        <<<<"KO_KAI", "WO_WAEN", "DO_DEK">>, <<"g", "u_grave", "u", "a", "t">>>>,
        <<<<"PO_PLA", "LO_LING", "O_ANG", "MO_MA">>, <<"b", "p", "l", "open_o", "open_o", "m">>>>,
        <<<<"YO_YAK", "SARA_AA">>, <<"y", "a", "a">>>>,
        <<<<"CHO_CHING", "SARA_II", "DO_DEK">>, <<"c", "h", "i_grave", "i", "t">>>>,
        <<<<"BO_BAIMAI", "O_ANG", "KO_KAI">>, <<"b", "open_o", "grave", "open_o", "k">>>>,
        <<<<"NO_NU", "SARA_UE", "KO_KAI">>, <<"n", "u_bar", "acute", "k">>>>,
        <<<<"THO_THUNG", "SARA_UE", "NGO_NGU">>, <<"t", "u_bar", "caron", "n", "g">>>>,
        <<<<"SARA_AI_MAIMUAN", "NO_NU">>, <<"n", "a", "i">>>>,
        <<<<"NGO_NGU", "MAI_HAN_AKAT", "MAI_THO", "NO_NU">>, <<"n", "g", "a_acute", "n">>>>,
        <<<<"YO_YING", "SARA_AA", "TO_TAO", "SARA_I">>, <<"y", "a_circumflex", "a", "t">>>>,
        <<<<"SARA_E", "LO_LING", "SARA_II", "MAI_EK", "YO_YAK", "NGO_NGU">>, <<"l", "i_circumflex", "i", "a", "n", "g">>>>,
        <<<<"HO_HIP", "LO_LING", "SARA_II", "KO_KAI">>, <<"l", "i_grave", "i", "k">>>>,
        <<<<"SARA_E", "CHO_CHANG", "MAI_THO", "SARA_AA">>, <<"c", "h", "a_acute", "a", "o">>>>,
        <<<<"SARA_O", "MO_MA", "NGO_NGU">>, <<"m", "o", "o", "n", "g">>>>,
        <<<<"SARA_E", "KHO_KHWAI", "RO_RUA", "SARA_UEE", "MAI_EK", "O_ANG", "NGO_NGU">>, <<"k", "r", "u_bar", "circumflex", "u_bar", "a", "n", "g">>>>,
        <<<<"SO_SUA", "NO_NU", "SARA_U", "KO_KAI">>, <<"s", "a_grave", "~", "n", "u_grave", "k">>>>,
        <<<<"SARA_O", "THO_THAHAN", "RO_RUA">>, <<"t", "o", "o">>>>,
        <<<<"SARA_AE", "SO_SUA", "WO_WAEN", "NGO_NGU">>, <<"s", "a_grave", "~", "w", "open_e", "caron", "open_e", "n", "g">>>>,
        <<<<"SO_SUA", "RO_RUA", "NGO_NGU">>, <<"s", "o_caron", "n", "g">>>>,
        <<<<"MO_MA", "SARA_A", "PHO_PHAN", "RO_RUA", "MAI_THO", "SARA_AA", "WO_WAEN">>, <<"m", "a_acute", "~", "p", "r", "a_acute", "a", "o">>>>,
        <<<<"SARA_E", "CHO_CHING", "SARA_I", "DO_DEK">>, <<"c", "h", "schwa", "grave", "schwa", "t">>>>,
        <<<<"CHO_CHING", "MAI_HAN_AKAT", "NO_NU">>, <<"c", "h", "a_caron", "n">>>>,
        <<<<"SO_SUA", "NO_NU", "MAI_HAN_AKAT", "BO_BAIMAI">>, <<"s", "a_grave", "~", "n", "a_grave", "p">>>>,
        <<<<"SO_SUA", "NO_NU", "SARA_U", "NO_NU">>, <<"s", "a_grave", "~", "n", "u_caron", "n">>>>,
        <<<<"SARA_E", "O_ANG", "NGO_NGU">>, <<"e", "e", "n", "g">>>>,
        <<<<"MO_MA", "MAI_HAN_AKAT", "MAI_EK", "NO_NU">>, <<"m", "a_circumflex", "n">>>>,
        <<<<"SARA_E", "BO_BAIMAI", "NO_NU">>, <<"b", "e", "e", "n">>>>,
        <<<<"BO_BAIMAI", "SARA_II", "MAI_EK", "YO_YAK", "NGO_NGU">>, <<"b", "i_grave", "i", "a", "n", "g">>>>,
        <<<<"SO_SUA", "MO_MA", "SARA_U">>, <<"s", "a_grave", "~", "m", "u_grave">>>>,
        <<<<"THO_THAHAN", "MAI_HAN_AKAT", "YO_YAK">>, <<"t", "a", "i">>>>,
        <<<<"SARA_E", "CHO_CHANG", "SARA_UEE", "MAI_THO", "O_ANG">>, <<"c", "h", "u_bar", "acute", "u_bar", "a">>>>,
        <<<<"SARA_E", "HO_HIP", "YO_YAK", "SARA_UEE", "MAI_EK", "O_ANG">>, <<"y", "u_bar", "grave", "u_bar", "a">>>>,
        <<<<"SARA_E", "SO_SUA", "SARA_UEE", "MAI_THO", "O_ANG">>, <<"s", "u_bar", "circumflex", "u_bar", "a">>>>,
        <<<<"SARA_E", "NO_NU", "SARA_UEE", "MAI_THO", "O_ANG">>, <<"n", "u_bar", "acute", "u_bar", "a">>>>,
        <<<<"SARA_E", "KO_KAI", "LO_LING", "SARA_UEE", "MAI_THO", "O_ANG">>, <<"g", "l", "u_bar", "circumflex", "u_bar", "a">>>>,
        <<<<"SARA_E", "HO_HIP", "MO_MA", "SARA_UEE", "O_ANG", "NO_NU">>, <<"m", "u_bar", "caron", "u_bar", "a", "n">>>>,
        <<<<"SARA_E", "HO_HIP", "MO_MA", "SARA_UEE", "O_ANG">>, <<"m", "u_bar", "caron", "u_bar", "a">>>>,
        <<<<"SARA_E", "SO_SUA", "MO_MA", "SARA_UEE", "O_ANG", "NO_NU">>, <<"s", "a_grave", "~", "m", "u_bar", "caron", "u_bar", "a", "n">>>>,
        <<<<"SARA_E", "LO_LING", "SARA_II", "MAI_THO", "YO_YAK", "WO_WAEN">>, <<"l", "i_acute", "i", "a", "o">>>>,
        <<<<"SARA_E", "PO_PLA", "LO_LING", "SARA_II", "MAI_EK", "YO_YAK", "WO_WAEN">>, <<"b", "p", "l", "i_grave", "i", "a", "o">>>>,
        <<<<"SARA_E", "KHO_KHWAI", "SARA_II", "MAI_THO", "YO_YAK", "WO_WAEN">>, <<"k", "i_acute", "i", "a", "o">>>>,
        <<<<"SARA_E", "THO_THAHAN", "SARA_II", "MAI_EK", "YO_YAK", "WO_WAEN">>, <<"t", "i_circumflex", "i", "a", "o">>>>,
        <<<<"SARA_E", "SO_SUA", "SARA_II", "YO_YAK", "WO_WAEN">>, <<"s", "i_caron", "i", "a", "o">>>>,
        <<<<"O_ANG", "MAI_THO", "O_ANG", "MO_MA">>, <<"open_o", "circumflex", "open_o", "m">>>>,
        <<<<"O_ANG", "MAI_EK", "O_ANG", "NO_NU">>, <<"open_o", "grave", "open_o", "n">>>>,
        <<<<"O_ANG", "MAI_THO", "O_ANG", "YO_YAK">>, <<"open_o", "circumflex", "open_o", "i">>>>,
        <<<<"O_ANG", "MAI_EK", "O_ANG", "YO_YAK">>, <<"open_o", "grave", "open_o", "i">>>>,
        <<<<"O_ANG", "MAI_THO", "O_ANG">>, <<"open_o", "circumflex", "open_o">>>>,
        <<<<"O_ANG", "MAI_EK", "O_ANG">>, <<"open_o", "grave", "open_o">>>>,
        <<<<"SARA_E", "DO_DEK", "SARA_II", "MAI_CHATTAWA", "YO_YAK", "WO_WAEN">>, <<"d", "i_caron", "i", "a", "o">>>>,
        <<<<"SO_SUA", "SARA_UU", "NGO_NGU">>, <<"s", "u_caron", "u", "n", "g">>>>,
        <<<<"MO_MA", "SARA_UU", "LO_LING">>, <<"m", "u", "u", "n">>>>,
        <<<<"KHO_KHWAI", "MAI_EK", "SARA_AA">>, <<"k", "a_circumflex", "a">>>>,
        <<<<"KO_KAI", "SARA_U", "YO_YING">>, <<"g", "u", "n">>>>,
        <<<<"SARA_AE", "CHO_CHAN">>, <<"j", "open_e", "open_e">>>>,
        <<<<"SO_SUA", "SARA_I", "NO_NU">>, <<"s", "i_caron", "n">>>>,
        <<<<"BO_BAIMAI", "NO_NU">>, <<"b", "o", "n">>>>,
        <<<<"WO_WAEN", "MAI_EK", "SARA_AA">>, <<"w", "a_circumflex", "a">>>>,
        <<<<"CHO_CHANG", "SARA_UEE", "MAI_EK", "O_ANG">>, <<"c", "h", "u_bar", "circumflex", "u_bar">>>>,
        <<<<"SARA_E", "SO_SUA", "SARA_II", "YO_YAK", "NGO_NGU">>, <<"s", "i_caron", "i", "a", "n", "g">>>>,
        <<<<"CHO_CHAN", "MAI_EK", "SARA_AA", "YO_YAK">>, <<"j", "a_grave", "a", "i">>>>,
        <<<<"SARA_AI_MAIMALAI", "FO_FAN">>, <<"f", "a", "i">>>>,
        <<<<"RO_RUA", "SO_SUA">>, <<"r", "o_acute", "t">>>>,
        <<<<"CHO_CHANG", "SARA_AA", "TO_TAO", "SARA_I">>, <<"c", "h", "a_circumflex", "a", "t">>>>,
        <<<<"THO_THAHAN", "SARA_A">>, <<"t", "a_acute">>>>,
        <<<<"SARA_E", "BO_BAIMAI", "SARA_II", "YO_YAK", "NO_NU">>, <<"b", "i", "i", "a", "n">>>>,
        <<<<"RO_RUA", "SARA_A">>, <<"r", "a_acute">>>>,
        <<<<"SARA_E", "HO_HIP", "YO_YAK">>, <<"h", "schwa", "caron", "schwa", "i">>>>,
        <<<<"SARA_E", "CHO_CHAN", "RO_RUA">>, <<"j", "e", "e", "-", "r", "a_acute">>>>,
        <<<<"CHO_CHAN", "SARA_AA">>, <<"j", "a", "a">>>>,
        <<<<"KHO_KHAI", "O_ANG", "NGO_NGU">>, <<"k", "open_o", "caron", "open_o", "n", "g">>>>,
        <<<<"SARA_E", "PHO_PHAN", "SARA_UEE", "MAI_EK", "O_ANG", "NO_NU">>, <<"p", "u_bar", "circumflex", "u_bar", "a", "n">>>>,
        <<<<"KHO_KHWAI", "O_ANG", "NO_NU">>, <<"k", "open_o", "n">>>>,
        <<<<"TO_TAO", "O_ANG", "NO_NU">>, <<"d", "t", "open_o", "open_o", "n">>>>,
        <<<<"SARA_E", "PO_PLA", "SARA_I", "DO_DEK">>, <<"b", "p", "schwa", "grave", "schwa", "t">>>>,
        <<<<"SO_SUA", "O_ANG", "NGO_NGU">>, <<"s", "open_o", "caron", "open_o", "n", "g">>>>,
        <<<<"SARA_O", "LO_LING", "NGO_NGU">>, <<"l", "o", "o", "n", "g">>>>,
        <<<<"SARA_O", "LO_LING", "MAI_EK", "NGO_NGU">>, <<"l", "o_circumflex", "o", "n", "g">>>>,
        <<<<"SARA_E", "KHO_KHWAI", "LO_LING", "SARA_UEE", "MAI_EK", "O_ANG", "NO_NU">>, <<"k", "l", "u_bar", "circumflex", "u_bar", "a", "n">>>>,
        <<<<"CHO_CHAN", "O_ANG", "NGO_NGU">>, <<"j", "open_o", "open_o", "n", "g">>>>,
        <<<<"TO_TAO", "MAI_THO", "O_ANG", "NGO_NGU">>, <<"d", "t", "open_o", "circumflex", "open_o", "n", "g">>>>,
        <<<<"TO_TAO", "MAI_EK", "SARA_AA", "NGO_NGU">>, <<"d", "t", "a_grave", "a", "n", "g">>>>,
        <<<<"RO_RUA", "O_ANG", "NGO_NGU">>, <<"r", "open_o", "open_o", "n", "g">>>>,
        <<<<"RO_RUA", "MAI_THO", "O_ANG", "NGO_NGU">>, <<"r", "open_o", "acute", "open_o", "n", "g">>>>,
        <<<<"LO_LING", "MAI_THO", "O_ANG", "NGO_NGU">>, <<"l", "open_o", "acute", "open_o", "n", "g">>>>,
        <<<<"KHO_KHWAI", "NGO_NGU">>, <<"k", "o", "n", "g">>>>,
        <<<<"SO_SUA", "NGO_NGU">>, <<"s", "o_caron", "n", "g">>>>,
        <<<<"SO_SUA", "NGO_NGU", "KHO_KHWAI", "RO_RUA", "SARA_AA", "MO_MA">>, <<"s", "o_caron", "n", "g", "-", "k", "r", "a", "a", "m">>>>,
        <<<<"HO_HIP", "LO_LING", "NGO_NGU">>, <<"l", "o_caron", "n", "g">>>>,
        <<<<"HO_HIP", "LO_LING", "WO_WAEN", "NGO_NGU">>, <<"l", "u_caron", "u", "a", "n", "g">>>>,
        <<<<"HO_HIP", "LO_LING", "SARA_AA", "KO_KAI">>, <<"l", "a_grave", "a", "k">>>>,
        <<<<"HO_HIP", "LO_LING", "O_ANG", "KO_KAI">>, <<"l", "open_o", "grave", "open_o", "k">>>>,
        <<<<"HO_HIP", "LO_LING", "SARA_U", "MO_MA">>, <<"l", "u_caron", "m">>>>,
        <<<<"HO_HIP", "LO_LING", "SARA_AA", "NO_NU">>, <<"l", "a_caron", "a", "n">>>>,
        <<<<"HO_HIP", "LO_LING", "O_ANG", "DO_DEK">>, <<"l", "open_o", "grave", "open_o", "t">>>>,
        <<<<"HO_HIP", "LO_LING", "MAI_EK", "O_ANG">>, <<"l", "open_o", "grave", "open_o">>>>,
        <<<<"HO_HIP", "LO_LING", "MAI_EK", "NO_NU">>, <<"l", "o_grave", "n">>>>,
        <<<<"HO_HIP", "LO_LING", "SARA_UU", "MAI_EK">>, <<"l", "u_grave", "u">>>>,
        <<<<"HO_HIP", "NO_NU", "SARA_II">>, <<"n", "i_caron", "i">>>>,
        <<<<"HO_HIP", "NO_NU", "SARA_UE", "MAI_EK", "NGO_NGU">>, <<"n", "u_bar", "grave", "n", "g">>>>,
        <<<<"HO_HIP", "NO_NU", "MAI_EK", "WO_WAEN", "YO_YAK">>, <<"n", "u_grave", "u", "a", "i">>>>,
        <<<<"HO_HIP", "NO_NU", "MAI_THO", "SARA_AA">>, <<"n", "a_circumflex", "a">>>>,
        <<<<"HO_HIP", "NO_NU", "O_ANG", "NGO_NGU">>, <<"n", "open_o", "caron", "open_o", "n", "g">>>>,
        <<<<"HO_HIP", "NO_NU", "MAI_HAN_AKAT", "NGO_NGU">>, <<"n", "a_caron", "n", "g">>>>,
        <<<<"HO_HIP", "NO_NU", "O_ANG">>, <<"n", "open_o", "caron", "open_o">>>>,
        <<<<"HO_HIP", "NO_NU", "MAI_EK", "O_ANG">>, <<"n", "open_o", "grave", "open_o">>>>,
        <<<<"HO_HIP", "MO_MA", "O_ANG", "NGO_NGU">>, <<"m", "open_o", "caron", "open_o", "n", "g">>>>,
        <<<<"HO_HIP", "MO_MA", "O_ANG">>, <<"m", "open_o", "caron", "open_o">>>>,
        <<<<"HO_HIP", "MO_MA", "MAI_THO", "O_ANG">>, <<"m", "open_o", "circumflex", "open_o">>>>,
        <<<<"HO_HIP", "MO_MA", "O_ANG", "NO_NU">>, <<"m", "open_o", "caron", "open_o", "n">>>>,
        <<<<"HO_HIP", "YO_YAK", "SARA_U", "DO_DEK">>, <<"y", "u_grave", "t">>>>,
        <<<<"HO_HIP", "YO_YAK", "SARA_AA", "BO_BAIMAI">>, <<"y", "a_grave", "a", "p">>>>,
        <<<<"HO_HIP", "YO_YAK", "SARA_I", "BO_BAIMAI">>, <<"y", "i_grave", "p">>>>,
        <<<<"HO_HIP", "YO_YAK", "MAI_EK", "O_ANG", "NO_NU">>, <<"y", "open_o", "grave", "open_o", "n">>>>,
        <<<<"TO_TAO", "RO_RUA", "NGO_NGU">>, <<"d", "t", "r", "o", "n", "g">>>>,
        <<<<"PO_PLA", "LO_LING", "NGO_NGU">>, <<"b", "p", "l", "o", "n", "g">>>>,
        <<<<"CHO_CHAN", "NGO_NGU">>, <<"j", "o", "n", "g">>>>,
        <<<<"LO_LING", "NGO_NGU">>, <<"l", "o", "n", "g">>>>,
        <<<<"KHO_KHAI", "SARA_UE", "MAI_THO", "NO_NU">>, <<"k", "u_bar", "circumflex", "n">>>>,
        <<<<"RO_RUA", "MAI_HAN_AKAT", "NGO_NGU">>, <<"r", "a", "n", "g">>>>,
        <<<<"YO_YAK", "MAI_HAN_AKAT", "NGO_NGU">>, <<"y", "a", "n", "g">>>>,
        <<<<"DO_DEK", "MAI_HAN_AKAT", "NGO_NGU">>, <<"d", "a", "n", "g">>>>,
        <<<<"SARA_AI_MAIMALAI", "MO_MA", "MAI_EK">>, <<"m", "a_circumflex", "i">>>>,
        <<<<"SARA_AI_MAIMALAI", "MO_MA", "MAI_THO">>, <<"m", "a_acute", "a", "i">>>>,
        <<<<"SARA_AI_MAIMALAI", "HO_HIP", "MO_MA">>, <<"m", "a_caron", "i">>>>,
        <<<<"RO_RUA", "SARA_A", "HO_HIP", "WO_WAEN", "MAI_EK", "SARA_AA", "NGO_NGU">>, <<"r", "a_acute", "~", "w", "a_grave", "a", "n", "g">>>>,
        <<<<"O_ANG", "SARA_AM", "NO_NU", "WO_WAEN", "YO_YAK">>, <<"a", "m", "-", "n", "u", "u", "a", "i">>>>,
        <<<<"KHO_KHAI", "SARA_AA", "MO_MA">>, <<"k", "a_caron", "a", "m">>>>,
        <<<<"MO_MA", "SARA_A", "KHO_KHAI", "SARA_AA", "MO_MA">>, <<"m", "a_acute", "~", "k", "a_caron", "a", "m">>>>,
        <<<<"THO_THAHAN", "MAI_THO", "O_ANG", "NO_NU">>, <<"t", "open_o", "acute", "open_o", "n">>>>,
        <<<<"SO_SUA", "SARA_A", "THO_THAHAN", "MAI_THO", "O_ANG", "NO_NU">>, <<"s", "a_grave", "~", "t", "open_o", "acute", "open_o", "n">>>>,
        <<<<"RO_RUA", "MAI_THO", "O_ANG", "NO_NU">>, <<"r", "open_o", "acute", "open_o", "n">>>>,
        <<<<"NO_NU", "SARA_I", "DO_DEK">>, <<"n", "i_acute", "t">>>>,
        <<<<"HO_HIP", "NO_NU", "MAI_EK", "O_ANG", "YO_YAK">>, <<"n", "open_o", "grave", "i">>>>,
        <<<<"SARA_E", "KHO_KHWAI", "RO_RUA", "DO_DEK", "SARA_I", "TO_TAO">>, <<"k", "r", "e", "e", "-", "d", "i_grave", "t">>>>,
        <<<<"CHO_CHANG", "SARA_AA", "RO_RUA", "THANTHAKHAT", "CHO_CHAN">>, <<"c", "h", "a_acute", "a", "t">>>>,
        <<<<"LO_LING", "MAITAIKHU", "O_ANG", "KO_KAI">>, <<"l", "open_o", "acute", "k">>>>,
        <<<<"O_ANG", "SARA_I", "NO_NU">>, <<"i", "n">>>>,
        <<<<"SARA_AE", "CHO_CHANG", "MO_MA">>, <<"c", "h", "open_e", "m">>>>,
        <<<<"SARA_E", "KHO_KHWAI", "RO_RUA", "SARA_AA", "SARA_A", "HO_HIP", "THANTHAKHAT">>, <<"k", "r", "open_o", "acute">>>>,
        <<<<"WO_WAEN", "SARA_I", "SARA_E", "KHO_KHWAI", "RO_RUA", "SARA_AA", "SARA_A", "HO_HIP", "THANTHAKHAT">>, <<"w", "i_acute", "-", "k", "r", "open_o", "acute">>>>,
        <<<<"SARA_E", "RO_RUA", "SARA_AA", "SARA_A">>, <<"r", "open_o", "acute">>>>,
        <<<<"SARA_AI_MAIMALAI", "PHO_PHAN", "SARA_E", "RO_RUA", "SARA_AA", "SARA_A">>, <<"p", "a", "i", "-", "r", "open_o", "acute">>>>,
        <<<<"SARA_E", "KO_KAI", "LO_LING", "SARA_II", "YO_YAK", "DO_DEK">>, <<"g", "l", "i_grave", "i", "a", "t">>>>,
        <<<<"SARA_E", "LO_LING", "SARA_II", "YO_YAK", "DO_DEK">>, <<"l", "i_grave", "i", "a", "t">>>>,
        <<<<"RO_RUA", "MAI_EK", "SARA_AA">>, <<"r", "a_circumflex", "a">>>>,
        <<<<"RO_RUA", "MAI_EK", "SARA_AA", "SARA_E", "RO_RUA", "SARA_I", "NGO_NGU">>, <<"r", "a_circumflex", "a", "-", "r", "schwa", "schwa", "n", "g">>>>,
        <<<<"RU", "DO_DEK", "SARA_UU">>, <<"r", "u_bar", "acute", "-", "d", "u", "u">>>>,
        <<<<"KO_KAI", "SARA_I", "NO_NU">>, <<"g", "i", "n">>>>,
        <<<<"DO_DEK", "SARA_I", "NO_NU">>, <<"d", "i", "n">>>>,
        <<<<"BO_BAIMAI", "SARA_I", "NO_NU">>, <<"b", "i", "n">>>>,
        <<<<"MO_MA", "SARA_I", "NO_NU">>, <<"m", "i", "n">>>>,
        <<<<"CHO_CHAN", "SARA_I", "NO_NU">>, <<"j", "i", "n">>>>,
        <<<<"LO_LING", "SARA_I", "NO_NU">>, <<"l", "i", "n">>>>,
        <<<<"CHO_CHANG", "SARA_I", "NO_NU">>, <<"c", "h", "i", "n">>>>,
        <<<<"PHO_PHAN", "SARA_I", "NO_NU">>, <<"p", "i", "n">>>>,
        <<<<"LO_LING", "MAI_HAN_AKAT", "NO_NU">>, <<"l", "a", "n">>>>,
        <<<<"SARA_E", "O_ANG", "SARA_UEE", "MAI_THO", "O_ANG">>, <<"u_bar", "circumflex", "u_bar", "a">>>>,
        <<<<"SARA_E", "O_ANG", "SARA_UEE", "MAI_THO", "O_ANG", "MO_MA">>, <<"u_bar", "circumflex", "u_bar", "a", "m">>>>,
        <<<<"SO_SUA", "KO_KAI">>, <<"s", "o_grave", "k">>>>,
        <<<<"PO_PLA", "RO_RUA", "KO_KAI">>, <<"b", "p", "a_grave", "~", "r", "o_grave", "k">>>>,
        <<<<"SO_SUA", "KO_KAI", "PO_PLA", "RO_RUA", "KO_KAI">>, <<"s", "o_grave", "k", "-", "g", "a_grave", "~", "b", "p", "r", "o_grave", "k">>>>,
        <<<<"SO_SUA", "NO_NU", "THO_THAHAN", "NO_NU", "SARA_AA">>, <<"s", "o_caron", "n", "-", "t", "a_acute", "~", "n", "a", "a">>>>,
        <<<<"PHO_PHAN", "RO_RUA", "HO_HIP", "MO_MA">>, <<"p", "r", "o", "m">>>>,
        <<<<"SARA_E", "KO_KAI", "SARA_II", "MAI_EK", "YO_YAK", "WO_WAEN">>, <<"g", "i_grave", "i", "a", "o">>>>,
        <<<<"KHO_KHAI", "MAI_THO", "O_ANG", "NGO_NGU">>, <<"k", "open_o", "circumflex", "n", "g">>>>,
        <<<<"KHO_KHWAI", "O_ANG", "NGO_NGU">>, <<"k", "open_o", "open_o", "n", "g">>>>,
        <<<<"PO_PLA", "RO_RUA", "SARA_A", "KHO_KHWAI", "O_ANG", "NGO_NGU">>, <<"b", "p", "r", "a_grave", "~", "k", "open_o", "open_o", "n", "g">>>>,
        <<<<"RO_RUA", "THO_THUNG">>, <<"r", "o_acute", "t">>>>,
        <<<<"BO_BAIMAI", "MAI_HAN_AKAT", "SO_SUA">>, <<"b", "a_acute", "t">>>>,
        <<<<"SARA_E", "PHO_PHAN", "SARA_II", "MAI_THO", "YO_YAK", "NO_NU">>, <<"p", "i_acute", "i", "a", "n">>>>,
        <<<<"SARA_E", "KHO_KHWAI", "RO_RUA", "SARA_II", "YO_YAK", "DO_DEK">>, <<"k", "r", "i_circumflex", "i", "a", "t">>>>,
        <<<<"O_ANG", "SARA_U", "NO_NEN", "HO_HIP">>, <<"u", "n", "-", "h", "a_grave">>>>,
        <<<<"O_ANG", "SARA_U", "NO_NEN", "HO_HIP", "PHO_SAMPHAO", "SARA_UU", "MO_MA", "SARA_I">>, <<"u", "n", "-", "h", "a_grave", "~", "p", "u", "u", "m">>>>,
        <<<<"MO_MA", "SARA_AA", "TO_TAO", "RO_RUA">>, <<"m", "a_circumflex", "a", "t">>>>,
        <<<<"THO_THAN", "SARA_AA", "NO_NU">>, <<"t", "a_caron", "a", "n">>>>,
        <<<<"MO_MA", "SARA_AA", "TO_TAO", "RO_RUA", "THO_THAN", "SARA_AA", "NO_NU">>, <<"m", "a_circumflex", "a", "t", "-", "d", "t", "r", "a_grave", "~", "t", "a_caron", "a", "n">>>>,
        <<<<"HO_HIP", "SARA_I", "MAI_EK", "NGO_NGU">>, <<"h", "i_grave", "n", "g">>>>,
        <<<<"HO_HIP", "MAI_THO", "O_ANG", "YO_YAK">>, <<"h", "open_o", "circumflex", "i">>>>,
        <<<<"HO_HIP", "SARA_I", "MAI_EK", "NGO_NGU", "HO_HIP", "MAI_THO", "O_ANG", "YO_YAK">>, <<"h", "i_grave", "n", "g", "-", "h", "open_o", "circumflex", "i">>>>,
        <<<<"KHO_KHWAI", "LO_LING", "SARA_AA", "YO_YAK">>, <<"k", "l", "a", "a", "i">>>>,
        <<<<"SO_SUA", "SARA_A", "PHO_PHAN", "SARA_AA", "YO_YAK">>, <<"s", "a_grave", "~", "p", "a", "a", "i">>>>,
        <<<<"THO_THUNG", "MAI_EK", "WO_WAEN", "NGO_NGU">>, <<"t", "u_grave", "u", "a", "n", "g">>>>,
        <<<<"THO_THUNG", "MAI_THO", "WO_WAEN", "NGO_NGU">>, <<"t", "u_circumflex", "u", "a", "n", "g">>>>,
        <<<<"SARA_E", "SO_SO", "FO_FAN">>, <<"s", "e_acute", "e", "p">>>>,
        <<<<"THO_THONG", "RO_RUA", "RO_RUA", "MO_MA", "CHO_CHANG", "SARA_AA", "TO_TAO", "SARA_I">>, <<"t", "a", "m", "-", "m", "a_acute", "~", "c", "h", "a_circumflex", "a", "t">>>>,
        <<<<"SARA_E", "PO_PLA", "MAI_CHATTAWA", "SARA_AA">>, <<"b", "p", "a_caron", "o">>>>,
        <<<<"SARA_E", "KO_KAI", "RO_RUA", "SARA_I", "KO_KAI">>, <<"g", "a_grave", "~", "r", "schwa", "grave", "schwa", "k">>>>,
        <<<<"MO_MA", "RO_RUA", "NO_NEN">>, <<"m", "open_o", "open_o", "-", "r", "a_acute", "~", "n", "a_acute">>>>,
        <<<<"THO_THONG", "RO_RUA", "RO_RUA", "MO_MA", "DO_DEK", "SARA_AA">>, <<"t", "a", "m", "-", "m", "a_acute", "~", "d", "a", "a">>>>,
        <<<<"SARA_E", "KO_KAI", "SARA_II", "YO_YAK", "RO_RUA", "TO_TAO", "SARA_I">>, <<"g", "i_grave", "i", "a", "t">>>>,
        <<<<"SARA_E", "KO_KAI", "SARA_II", "YO_YAK", "RO_RUA">>, <<"g", "i_grave", "i", "a">>>>,
        <<<<"SARA_E", "HO_HIP", "SARA_II", "MAI_THO", "YO_YAK", "MO_MA">>, <<"h", "i_circumflex", "i", "a", "m">>>>,
        <<<<"NO_NU", "MAI_THO", "O_ANG", "YO_YAK">>, <<"n", "open_o", "acute", "open_o", "i">>>>,
        <<<<"NO_NU", "MAI_THO", "O_ANG", "NGO_NGU">>, <<"n", "open_o", "acute", "open_o", "n", "g">>>>,
        <<<<"RO_RUA", "SARA_II", "DO_DEK">>, <<"r", "i_circumflex", "i", "t">>>>,
        <<<<"SARA_E", "KO_KAI", "TO_TAO">>, <<"g", "e_grave", "e", "t">>>>,
        <<<<"SARA_E", "KO_KAI", "TO_TAO", "SARA_U">>, <<"g", "e_grave", "e", "t">>>>,
        <<<<"TO_TAO", "SARA_U", "LO_LING", "SARA_AA">>, <<"d", "t", "u_grave", "-", "l", "a", "a">>>>,
        <<<<"TO_TAO", "SARA_U", "LO_LING", "SARA_AA", "KHO_KHWAI", "MO_MA">>, <<"d", "t", "u_grave", "-", "l", "a", "a", "-", "k", "o", "m">>>>,
        <<<<"KO_KAI", "RO_RUA", "KO_KAI", "DO_CHADA", "SARA_AA">>, <<"g", "a_grave", "~", "r", "a_acute", "-", "g", "a_grave", "~", "d", "a", "a">>>>,
        <<<<"KO_KAI", "RO_RUA", "KO_KAI", "DO_CHADA", "SARA_AA", "KHO_KHWAI", "MO_MA">>, <<"g", "a_grave", "~", "r", "a_acute", "-", "g", "a_grave", "~", "d", "a", "a", "-", "k", "o", "m">>>>,
        <<<<"O_ANG", "SARA_AA", "CHO_CHAN", "SARA_AA", "RO_RUA", "YO_YAK", "THANTHAKHAT">>, <<"a", "a", "-", "j", "a", "a", "n">>>>,
        <<<<"O_ANG", "SARA_AA", "CHO_CHAN", "SARA_AA", "RO_RUA">>, <<"a", "a", "-", "j", "a", "a", "n">>>>,
        <<<<"O_ANG", "THO_THONG", "SARA_I", "SO_RUSI", "THO_THAN", "SARA_AA", "NO_NU">>, <<"a_grave", "~", "t", "i_acute", "t", "-", "t", "a_caron", "a", "n">>>>,
        <<<<"BO_BAIMAI", "SARA_I", "NO_NEN", "THO_NANGMONTHO", "BO_BAIMAI", "SARA_AA", "TO_TAO">>, <<"b", "i", "n", "-", "t", "a_acute", "~", "b", "a_grave", "a", "t">>>>,
        <<<<"PHO_PHAN", "YO_YAK", "SARA_AA">>, <<"p", "a_acute", "~", "y", "a", "a">>>>,
        <<<<"PHO_PHAN", "YO_YAK", "SARA_AA", "BO_BAIMAI", "SARA_AA", "LO_LING">>, <<"p", "a_acute", "~", "y", "a", "a", "-", "b", "a", "a", "n">>>>,
        <<<<"PHO_PHAN", "RU", "TO_TAO", "SARA_I">>, <<"p", "r", "u_bar", "acute", "t", "-", "d", "t", "i_grave">>>>,
        <<<<"LO_LING", "SARA_AA", "MO_MA", "KO_KAI">>, <<"l", "a", "a", "-", "m", "o_acute", "k">>>>,
        <<<<"SO_SUA", "THO_THUNG", "SARA_AA", "NO_NU", "KO_KAI", "SARA_AA", "RO_RUA", "NO_NEN", "THANTHAKHAT">>, <<"s", "a_grave", "~", "t", "a_caron", "a", "-", "n", "a_acute", "~", "g", "a", "a", "n">>>>,
        <<<<"MO_MA", "SARA_I", "TO_TAO", "RO_RUA">>, <<"m", "i_acute", "t">>>>,
        <<<<"SARA_E", "PO_PLA", "RO_RUA", "SARA_UEE", "MAI_EK", "O_ANG", "NGO_NGU">>, <<"b", "p", "r", "u_bar", "grave", "u_bar", "a", "n", "g">>>>,
        <<<<"RU">>, <<"r", "u_bar", "acute">>>>,
        <<<<"KO_KAI", "WO_WAEN", "NO_NU">>, <<"g", "u", "u", "a", "n">>>>,
        <<<<"RO_RUA", "BO_BAIMAI", "KO_KAI", "WO_WAEN", "NO_NU">>, <<"r", "o_acute", "p", "-", "g", "u", "u", "a", "n">>>>,
        <<<<"THO_THUNG", "MAI_THO", "WO_WAEN", "NO_NU">>, <<"t", "u_circumflex", "u", "a", "n">>>>,
        <<<<"THO_THUNG", "SARA_II", "MAI_EK">>, <<"t", "i_grave", "i">>>>,
        <<<<"SARA_AI_MAIMALAI", "MO_MA", "MAI_THO", "SARA_AI_MAIMALAI", "PHO_PHUNG", "MAI_EK">>, <<"m", "a_acute", "i", "-", "p", "a_grave", "i">>>>,
        <<<<"SARA_E", "KO_KAI", "MAI_THO", "SARA_AA">>, <<"g", "a_circumflex", "o">>>>,
        <<<<"O_ANG", "SARA_II", "MAI_THO">>, <<"i_circumflex", "i">>>>,
        <<<<"SARA_E", "KO_KAI", "MAI_THO", "SARA_AA", "O_ANG", "SARA_II", "MAI_THO">>, <<"g", "a_circumflex", "o", "-", "i_circumflex", "i">>>>,
        <<<<"PHO_SAMPHAO", "SARA_AA", "SO_RUSI", "SARA_AA">>, <<"p", "a", "a", "-", "s", "a_caron", "a">>>>,
        <<<<"SO_SUA", "O_ANG", "NGO_NGU", "MO_MA", "SARA_AA", "TO_TAO", "RO_RUA", "THO_THAN", "SARA_AA", "NO_NU">>, <<"s", "open_o", "caron", "open_o", "n", "g", "-", "m", "a_circumflex", "a", "t", "-", "d", "t", "r", "a_grave", "~", "t", "a_caron", "a", "n">>>>,
        <<<<"SO_SUA", "SARA_AA", "PO_PLA">>, <<"s", "a_grave", "a", "p">>>>,
        <<<<"SARA_AE", "CHO_CHANG", "MAI_EK", "NGO_NGU">>, <<"c", "h", "open_e", "circumflex", "n", "g">>>>,
        <<<<"SO_SUA", "SARA_AA", "PO_PLA", "SARA_AE", "CHO_CHANG", "MAI_EK", "NGO_NGU">>, <<"s", "a_grave", "a", "p", "-", "c", "h", "open_e", "circumflex", "n", "g">>>>,
        <<<<"KO_KAI", "RO_RUA", "SARA_A", "WO_WAEN", "NO_NU">>, <<"g", "r", "a_grave", "~", "w", "o", "n">>>>,
        <<<<"SO_SUA", "SARA_I", "KO_KAI", "KHO_KHAI", "SARA_AA">>, <<"s", "i_grave", "k", "-", "k", "a_caron", "a">>>>,
        <<<<"BO_BAIMAI", "THO_THAHAN">>, <<"b", "o_grave", "t">>>>,
        <<<<"SARA_E", "O_ANG", "MAI_THO", "O_ANG">>, <<"schwa", "circumflex", "schwa">>>>,
        <<<<"SARA_E", "O_ANG", "MAI_THO", "O_ANG", "RO_RUA", "SARA_A", "SARA_E", "HO_HIP", "YO_YAK">>, <<"schwa", "circumflex", "schwa", "-", "r", "a_acute", "~", "h", "schwa", "caron", "schwa", "i">>>>,
        <<<<"SARA_AE", "KHO_KHWAI", "MO_MA", "PO_PLA", "THANTHAKHAT">>, <<"k", "open_e", "acute", "m">>>>,
        <<<<"SO_SUA", "SARA_AI_MAIMALAI", "TO_TAO", "LO_LING", "THANTHAKHAT">>, <<"s", "a_grave", "~", "d", "t", "a", "a", "i">>>>,
        <<<<"RO_RUA", "MAI_EK", "SARA_AM">>, <<"r", "a_circumflex", "m">>>>,
        <<<<"RO_RUA", "MAI_EK", "SARA_AM", "RO_RUA", "WO_WAEN", "YO_YAK">>, <<"r", "a_circumflex", "m", "-", "r", "u", "u", "a", "i">>>>,
        <<<<"PO_PLA", "RO_RUA", "SARA_AA", "SO_SALA", "CHO_CHAN", "SARA_AA", "KO_KAI">>, <<"b", "p", "r", "a_grave", "a", "t", "-", "s", "a_grave", "~", "j", "a_grave", "a", "k">>>>,
        <<<<"PHO_PHAN", "SARA_I", "MO_MA", "PHO_PHAN", "THANTHAKHAT">>, <<"p", "i", "m">>>>,
        <<<<"KO_KAI", "LO_LING", "MAI_EK", "O_ANG", "MO_MA">>, <<"g", "l", "open_o", "grave", "m">>>>,
        <<<<"KO_KAI", "LO_LING", "MO_MA">>, <<"g", "l", "o", "m">>>>,
        <<<<"CHO_CHAN", "O_ANG", "DO_DEK">>, <<"j", "open_o", "grave", "open_o", "t">>>>,
        <<<<"PO_PLA", "RO_RUA", "SARA_A", "KO_KAI", "SARA_AA", "SO_SALA">>, <<"b", "p", "r", "a_grave", "~", "g", "a_grave", "a", "t">>>>,
        <<<<"LO_LING", "WO_WAEN", "DO_DEK">>, <<"l", "u_circumflex", "u", "a", "t">>>>,
        <<<<"WO_WAEN", "MAI_EK", "SARA_AA", "YO_YAK">>, <<"w", "a_circumflex", "a", "i">>>>,
        <<<<"SARA_E", "CHO_CHANG", "SARA_II", "MAI_EK", "YO_YAK", "WO_WAEN">>, <<"c", "h", "i_circumflex", "i", "a", "o">>>>,
        <<<<"CHO_CHANG", "SARA_AA", "YO_YING">>, <<"c", "h", "a", "a", "n">>>>,
        <<<<"SARA_E", "THO_THAHAN", "SARA_I", "NGO_NGU">>, <<"t", "schwa", "schwa", "n", "g">>>>,
        <<<<"CHO_CHAN", "SARA_II", "WO_WAEN", "RO_RUA">>, <<"j", "i", "i", "-", "w", "open_o", "open_o", "n">>>>,
        <<<<"NO_NU", "SARA_AA", "YO_YAK", "KO_KAI">>, <<"n", "a", "a", "-", "y", "o_acute", "k">>>>,
        <<<<"PO_PLA", "LO_LING", "O_ANG", "DO_DEK">>, <<"b", "p", "l", "open_o", "grave", "open_o", "t">>>>,
        <<<<"SARA_AI_MAIMALAI", "SO_SUA", "MAI_THO">>, <<"s", "a_circumflex", "i">>>>,
        <<<<"SO_SUA", "SARA_AE", "LO_LING", "NGO_NGU">>, <<"s", "a_grave", "~", "l", "open_e", "open_e", "n", "g">>>>,
        <<<<"SARA_E", "SO_SO", "NGO_NGU">>, <<"s", "e", "n", "g">>>>,
        <<<<"SARA_E", "PO_PLA", "MAITAIKHU", "DO_DEK">>, <<"b", "p", "e_grave", "t">>>>,
        <<<<"SO_SUA", "MO_MA", "SARA_AA", "THO_THONG", "SARA_I">>, <<"s", "a_grave", "~", "m", "a", "a", "-", "t", "i_acute">>>>,
        <<<<"SO_SUA", "MO_MA", "NO_NU", "MAI_THO", "SARA_AM", "HO_HIP", "NO_NU", "MAI_THO", "SARA_AA">>, <<"s", "o_caron", "m", "-", "n", "a_acute", "m", "-", "n", "a_circumflex", "a">>>>,
        <<<<"RO_RUA", "MAI_HAN_AKAT", "MAI_THO", "WO_WAEN">>, <<"r", "u_acute", "u", "a">>>>,
        <<<<"THO_THAHAN", "SARA_U", "SARA_E", "RO_RUA", "SO_SALA">>, <<"t", "u_acute", "-", "r", "e_circumflex", "e", "t">>>>,
        <<<<"KO_KAI", "O_ANG", "BO_BAIMAI">>, <<"g", "open_o", "grave", "open_o", "p">>>>,
        <<<<"PO_PLA", "RO_RUA", "SARA_A", "KO_KAI", "O_ANG", "BO_BAIMAI">>, <<"b", "p", "r", "a_grave", "~", "g", "open_o", "grave", "open_o", "p">>>>,
        <<<<"RO_RUA", "MAI_EK", "WO_WAEN", "MO_MA">>, <<"r", "u_circumflex", "u", "a", "m">>>>,
        <<<<"CHO_CHAN", "SARA_AM", "NO_NU", "WO_WAEN", "NO_NU">>, <<"j", "a", "m", "-", "n", "u", "u", "a", "n">>>>,
        <<<<"PHO_PHAN", "YO_YAK", "SARA_AA", "NGO_NGU", "KHO_KHWAI", "THANTHAKHAT">>, <<"p", "a_acute", "~", "y", "a", "a", "n", "g">>>>,
        <<<<"SARA_E", "CHO_CHANG", "SARA_UEE", "MAI_EK", "O_ANG", "MO_MA">>, <<"c", "h", "u_bar", "circumflex", "u_bar", "a", "m">>>>,
        <<<<"WO_WAEN", "MAI_EK", "SARA_AA", "O_ANG", "SARA_A", "SARA_AI_MAIMALAI", "RO_RUA">>, <<"w", "a_circumflex", "a", "-", "a_grave", "~", "r", "a", "i">>>>,
        <<<<"SO_SALA", "SARA_AA", "SO_SUA", "NO_NU", "SARA_AA">>, <<"s", "a_grave", "a", "t", "-", "s", "a_grave", "~", "n", "a_caron", "a">>>>,
        <<<<"PHO_PHAN", "SARA_U", "THO_THAHAN", "THO_THONG">>, <<"p", "u_acute", "t">>>>,
        <<<<"SARA_E", "DO_DEK", "SARA_II", "MAI_EK", "YO_YAK", "WO_WAEN">>, <<"d", "i_grave", "i", "a", "o">>>>,
        <<<<"SARA_O", "DO_DEK", "DO_DEK", "SARA_E", "DO_DEK", "SARA_II", "MAI_EK", "YO_YAK", "WO_WAEN">>, <<"d", "o_grave", "o", "t", "-", "d", "i_grave", "i", "a", "o">>>>,
        <<<<"SARA_E", "THO_THAHAN", "SO_SALA", "NO_NU", "SARA_AA">>, <<"t", "e_circumflex", "e", "t", "-", "s", "a_grave", "~", "n", "a_caron", "a">>>>,
        <<<<"WO_WAEN", "RO_RUA", "RO_RUA", "NO_NEN">>, <<"w", "a", "n", "-", "n", "a_acute">>>>,
        <<<<"CHO_CHANG", "SARA_AA", "TO_TAO", "SARA_I", "PHO_PHAN", "MAI_HAN_AKAT", "NO_NU", "THO_THONG", "SARA_U", "THANTHAKHAT">>, <<"c", "h", "a_circumflex", "a", "t", "-", "d", "t", "i_grave", "~", "p", "a", "n">>>>,
        <<<<"SARA_E", "CHO_CHAN", "RO_RUA", "CHO_CHAN", "SARA_AA">>, <<"j", "e", "e", "-", "r", "a_acute", "~", "j", "a", "a">>>>,
        <<<<"PO_PLA", "RO_RUA", "SARA_A", "MO_MA", "SARA_AA", "NO_NEN">>, <<"b", "p", "r", "a_grave", "~", "m", "a", "a", "n">>>>,
        <<<<"SARA_E", "WO_WAEN", "THO_THAHAN", "NO_NU", "SARA_AA">>, <<"w", "e_circumflex", "e", "t", "-", "t", "a_acute", "~", "n", "a", "a">>>>,
        <<<<"O_ANG", "RO_RUA", "SARA_I", "YO_YAK", "SARA_A">>, <<"a_grave", "~", "r", "i_acute", "~", "y", "a_acute">>>>,
        <<<<"O_ANG", "RO_RUA", "SARA_I">>, <<"a_grave", "~", "r", "i_acute">>>>,
        <<<<"SO_SUA", "MO_MA", "MO_MA", "SARA_U", "TO_TAO", "SARA_I">>, <<"s", "o_caron", "m", "-", "m", "u_acute", "t">>>>,
        <<<<"KO_KAI", "SARA_AA", "SO_SALA">>, <<"g", "a_grave", "a", "t">>>>,
        <<<<"SARA_E", "MO_MA", "SARA_UEE", "MAI_EK", "O_ANG", "YO_YAK">>, <<"m", "u_bar", "circumflex", "u_bar", "a", "i">>>>,
        <<<<"KHO_KHAI", "O_ANG", "NO_NU">>, <<"k", "open_o", "caron", "n">>>>,
        <<<<"CHO_CHAN", "RO_RUA", "SARA_I", "TO_TAO">>, <<"j", "a_grave", "~", "r", "i_grave", "t">>>>,
        <<<<"SO_SUA", "SARA_U", "CHO_CHAN", "RO_RUA", "SARA_I", "TO_TAO">>, <<"s", "u_grave", "t", "-", "j", "a_grave", "~", "r", "i_grave", "t">>>>,
        <<<<"TO_TAO", "RO_RUA", "O_ANG", "NGO_NGU">>, <<"d", "t", "r", "open_o", "open_o", "n", "g">>>>,
        <<<<"RO_RUA", "SARA_A", "LO_LING", "SARA_UE", "KO_KAI">>, <<"r", "a_acute", "~", "l", "u_bar", "acute", "k">>>>,
        <<<<"SO_SUA", "SARA_AA", "RO_RUA">>, <<"s", "a_caron", "a">>>>,
        <<<<"PHO_SAMPHAO", "SARA_AA", "PHO_PHAN">>, <<"p", "a_circumflex", "a", "p">>>>,
        <<<<"SO_SUA", "SARA_AA", "RO_RUA", "PHO_SAMPHAO", "SARA_AA", "PHO_PHAN">>, <<"s", "a_caron", "a", "-", "r", "a_acute", "~", "p", "a_circumflex", "a", "p">>>>,
        <<<<"THO_THONG", "SARA_U", "DO_DEK", "NGO_NGU", "KHO_KHWAI", "THANTHAKHAT">>, <<"t", "u_acute", "-", "d", "o", "n", "g">>>>,
        <<<<"PHO_PHAN", "RO_RUA", "SARA_A", "THO_THONG", "SARA_U", "DO_DEK", "NGO_NGU", "KHO_KHWAI", "THANTHAKHAT">>, <<"p", "r", "a_acute", "-", "t", "u_acute", "-", "d", "o", "n", "g">>>>,
        <<<<"RO_RUA", "SARA_A", "SARA_E", "BO_BAIMAI", "SARA_I", "DO_DEK">>, <<"r", "a_acute", "~", "b", "schwa", "grave", "schwa", "t">>>>,
        <<<<"PHO_PHAN", "SARA_I", "CHO_CHAN", "SARA_AA", "RO_RUA", "NO_NEN", "SARA_AA">>, <<"p", "i_acute", "-", "j", "a", "a", "-", "r", "a_acute", "~", "n", "a", "a">>>>,
        <<<<"O_ANG", "NGO_NGU", "KHO_KHWAI", "THANTHAKHAT">>, <<"o", "n", "g">>>>,
        <<<<"O_ANG", "NGO_NGU", "KHO_KHWAI", "THANTHAKHAT", "KO_KAI", "RO_RUA">>, <<"o", "n", "g", "-", "g", "open_o", "open_o", "n">>>>,
        <<<<"SARA_E", "KO_KAI", "NO_NEN", "THO_NANGMONTHO", "THANTHAKHAT">>, <<"g", "e", "e", "n">>>>,
        <<<<"SARA_O", "HO_NOKHUK", "SARA_E", "TO_TAO", "MAITAIKHU", "LO_LING">>, <<"h", "o", "o", "-", "d", "t", "e", "n">>>>,
        <<<<"SARA_E", "TO_TAO", "MAITAIKHU", "LO_LING">>, <<"d", "t", "e", "n">>>>,
        <<<<"RO_RUA", "SARA_AA", "SARA_E", "MO_MA", "NGO_NGU">>, <<"r", "a", "a", "-", "m", "e", "n", "g">>>>,
        <<<<"SARA_E", "MO_MA", "NGO_NGU">>, <<"m", "e", "n", "g">>>>,
        <<<<"SO_SUA", "MAI_THO", "MO_MA", "SARA_O", "O_ANG">>, <<"s", "o_circumflex", "m", "-", "o", "o">>>>,
        <<<<"SO_SUA", "TO_TAO", "SARA_I">>, <<"s", "a_grave", "~", "d", "t", "i_grave">>>>,
        <<<<"TO_TAO", "SARA_A", "KO_KAI", "O_ANG", "NO_NU">>, <<"d", "t", "a_grave", "~", "g", "open_o", "open_o", "n">>>>,
        <<<<"LO_LING", "BO_BAIMAI">>, <<"l", "o_acute", "p">>>>,
        <<<<"TO_TAO", "SARA_I", "DO_DEK">>, <<"d", "t", "i_grave", "t">>>>,
        <<<<"PHO_PHAN", "MAI_HAN_AKAT", "THO_PHUTHAO", "NO_NU", "SARA_AA">>, <<"p", "a_acute", "t", "-", "t", "a_acute", "~", "n", "a", "a">>>>,
        <<<<"SARA_E", "YO_YAK", "SARA_II", "MAI_EK", "YO_YAK", "MO_MA">>, <<"y", "i_circumflex", "i", "a", "m">>>>,
        <<<<"NO_NU", "SARA_AA", "MO_MA">>, <<"n", "a", "a", "m">>>>,
        <<<<"SO_SUA", "KO_KAI", "SARA_U", "LO_LING">>, <<"s", "a_grave", "~", "g", "u", "n">>>>,
        <<<<"PO_PLA", "KO_KAI", "TO_TAO", "SARA_I">>, <<"b", "p", "a_grave", "~", "g", "a_grave", "~", "d", "t", "i_grave">>>>,
        <<<<"SARA_E", "NGO_NGU", "SARA_UEE", "MAI_EK", "O_ANG", "NO_NU">>, <<"n", "g", "u_bar", "circumflex", "u_bar", "a", "n">>>>,
        <<<<"KHO_KHWAI", "RO_RUA", "SARA_I", "SO_SUA", "TO_TAO", "THANTHAKHAT", "MO_MA", "SARA_AA", "SO_SUA">>, <<"k", "r", "i_acute", "t", "-", "s", "a_grave", "~", "m", "a_circumflex", "t">>>>,
        <<<<"PO_PLA", "RO_RUA", "SARA_I", "MO_MA", "SARA_AA", "NO_NEN">>, <<"b", "p", "a_grave", "~", "r", "i_acute", "~", "m", "a", "a", "n">>>>,
        <<<<"DO_DEK", "RO_RUA", "SARA_AA", "MO_MA", "MAI_EK", "SARA_AA">>, <<"d", "r", "a", "a", "-", "m", "a_circumflex", "a">>>>,
        <<<<"NO_NU", "SARA_I", "YO_YAK", "MO_MA">>, <<"n", "i_acute", "-", "y", "o", "m">>>>,
        <<<<"NO_NU", "MAI_THO", "SARA_AM", "LO_LING", "SARA_AA", "YO_YAK">>, <<"n", "a_acute", "m", "-", "l", "a", "a", "i">>>>,
        <<<<"LO_LING", "SARA_AA", "YO_YAK">>, <<"l", "a", "a", "i">>>>,
        <<<<"KHO_KHWAI", "SARA_U", "NO_NEN">>, <<"k", "u", "n">>>>,
        <<<<"NO_NEN">>, <<"n", "a_acute">>>>,
        <<<<"KHO_KHWAI", "SARA_U", "NO_NEN", "PHO_SAMPHAO", "SARA_AA", "PHO_PHAN">>, <<"k", "u", "n", "-", "n", "a_acute", "~", "p", "a_circumflex", "a", "p">>>>,
        <<<<"THO_THAHAN", "SARA_AA", "YO_YAK">>, <<"t", "a", "a">>>>,
        <<<<"YO_YAK", "SARA_AA", "THO_THAHAN">>, <<"y", "a_circumflex", "a", "t">>>>,
        <<<<"THO_THAHAN", "SARA_AA", "YO_YAK", "SARA_AA", "THO_THAHAN">>, <<"t", "a", "a", "-", "y", "a_circumflex", "a", "t">>>>,
        <<<<"PHO_PHAN", "RO_RUA", "RO_RUA", "NO_NEN">>, <<"p", "a", "n">>>>,
        <<<<"SO_SUA", "TO_TAO", "MAITAIKHU", "O_ANG", "KO_KAI">>, <<"s", "a_grave", "~", "d", "t", "open_o", "acute", "k">>>>,
        <<<<"SO_SUA", "MAI_HAN_AKAT", "NGO_NGU", "KHO_RAKHANG">>, <<"s", "a_caron", "n", "g", "-", "k", "a_acute">>>>,
        <<<<"PO_PLA", "TO_PATAK", "SARA_I", "BO_BAIMAI", "MAI_HAN_AKAT", "TO_TAO", "SARA_I">>, <<"b", "p", "a_grave", "~", "d", "t", "i_grave", "-", "b", "a_grave", "t">>>>,
        <<<<"BO_BAIMAI", "MAI_HAN_AKAT", "TO_TAO", "SARA_I">>, <<"b", "a_grave", "t">>>>,
        <<<<"PHO_PHAN", "RU", "SO_RUSI", "PHO_SAMPHAO", "SARA_AA">>, <<"p", "r", "u_bar", "acute", "t", "-", "s", "a_grave", "~", "p", "a", "a">>>>,
        <<<<"SO_SUA", "SARA_AA", "MO_MA", "SARA_E", "NO_NEN", "RO_RUA">>, <<"s", "a_caron", "a", "m", "-", "m", "a_acute", "~", "n", "e", "e", "n">>>>,
        <<<<"SARA_E", "NO_NEN", "RO_RUA">>, <<"n", "e", "e", "n">>>>,
        <<<<"SARA_AI_MAIMALAI", "DO_DEK", "MAI_THO", "YO_YAK", "SARA_I", "NO_NU">>, <<"d", "a_circumflex", "i", "-", "y", "i", "n">>>>,
        <<<<"PO_PLA", "RO_RUA", "SARA_I", "YO_YAK", "MAI_HAN_AKAT", "TO_TAO", "SARA_I">>, <<"b", "p", "a_grave", "~", "r", "i_acute", "-", "y", "a_acute", "t">>>>,
        <<<<"SARA_E", "SO_SO", "NO_NU">>, <<"s", "e", "n">>>>,
        <<<<"SO_SALA", "MAI_HAN_AKAT", "LO_LING", "YO_YAK">>, <<"s", "a_caron", "n", "-", "y", "a_acute">>>>,
        <<<<"SO_SUA", "SARA_A", "DO_DEK", "WO_WAEN", "KO_KAI">>, <<"s", "a_grave", "~", "d", "u_grave", "u", "a", "k">>>>,
        <<<<"PO_PLA", "RO_RUA", "SARA_AA", "RO_RUA", "THO_THUNG", "NO_NU", "SARA_AA">>, <<"b", "p", "r", "a_grave", "a", "t", "-", "t", "a_grave", "~", "n", "a_caron", "a">>>>,
        <<<<"KO_KAI", "SARA_A", "SARA_E", "HO_HIP", "RO_RUA", "SARA_II", "MAI_EK", "YO_YAK", "NGO_NGU">>, <<"g", "a_grave", "~", "r", "i_grave", "i", "a", "n", "g">>>>,
        <<<<"SARA_E", "HO_HIP", "RO_RUA", "SARA_II", "MAI_EK", "YO_YAK", "NGO_NGU">>, <<"r", "i_grave", "i", "a", "n", "g">>>>
    })

\* the special cases of transliterateSyllable
specialCases ==
    MapOf({
        <<<<"THO_THONG", "RO_RUA", "RO_RUA", "MO_MA">>, <<"t", "a", "m">>>>,
        <<<<"KO_KAI", "RO_RUA", "RO_RUA", "MO_MA">>, <<"g", "a", "m">>>>,
        <<<<"PHO_PHAN", "RO_RUA", "RO_RUA", "KHO_KHWAI">>, <<"p", "a_acute", "k">>>>,
        <<<<"WO_WAEN", "RO_RUA", "RO_RUA", "KHO_KHWAI">>, <<"w", "a_acute", "k">>>>,
        <<<<"SO_SUA", "RO_RUA", "RO_RUA">>, <<"s", "a_caron", "n">>>>,
        <<<<"BO_BAIMAI", "RO_RUA", "RO_RUA">>, <<"b", "a", "n">>>>,
        <<<<"CHO_CHAN", "RO_RUA", "RO_RUA">>, <<"j", "a", "n">>>>,
        <<<<"RO_RUA", "RO_RUA", "MO_MA">>, <<"a", "m">>>>,
        <<<<"RO_RUA", "RO_RUA", "KHO_KHWAI">>, <<"a_acute", "k">>>>,
        <<<<"RO_RUA", "RO_RUA", "NO_NEN">>, <<"a", "n">>>>,
        <<<<"RO_RUA", "RO_RUA", "PHO_PHAN">>, <<"a_acute", "p">>>>,
        <<<<"THO_THAHAN", "YO_YAK">>, <<"t", "a_acute", "~", "y", "a_acute">>>>,
        <<<<"WO_WAEN", "SARA_I", "THO_THAHAN", "YO_YAK">>, <<"w", "i_acute", "t", "-", "t", "a_acute", "~", "y", "a_acute">>>>,
        <<<<"WO_WAEN", "SARA_I", "THO_THAHAN", "YO_YAK", "SARA_U">>, <<"w", "i_acute", "t", "-", "t", "a_acute", "~", "y", "u_acute">>>>,
        <<<<"WO_WAEN", "SARA_I", "THO_THAHAN", "YO_YAK", "SARA_AA">>, <<"w", "i_acute", "t", "-", "t", "a_acute", "~", "y", "a", "a">>>>,
        <<<<"SO_SALA", "SARA_UE", "KO_KAI", "SO_RUSI", "SARA_AA">>, <<"s", "u_bar", "grave", "k", "-", "s", "a_caron", "a">>>>,
        <<<<"SO_SUA", "MAI_HAN_AKAT", "TO_TAO", "WO_WAEN", "THANTHAKHAT">>, <<"s", "a_grave", "t">>>>,
        <<<<"CHO_CHAN", "RO_RUA", "SARA_I", "NGO_NGU">>, <<"j", "i", "n", "g">>>>,
        <<<<"THO_THAHAN", "RO_RUA", "SARA_AA", "BO_BAIMAI">>, <<"s", "a_circumflex", "a", "p">>>>,
        <<<<"SO_SALA", "SARA_I", "LO_LING", "PO_PLA">>, <<"s", "i_caron", "n", "-", "l", "a_acute", "~", "b", "p", "a_grave">>>>,
        <<<<"SO_SALA", "SARA_I", "LO_LING", "PO_PLA", "SARA_A">>, <<"s", "i_caron", "n", "-", "l", "a_acute", "~", "b", "p", "a_grave">>>>,
        <<<<"NO_NU", "O_ANG", "NO_NU">>, <<"n", "open_o", "open_o", "n">>>>,
        <<<<"SARA_AE", "DO_DEK", "NGO_NGU">>, <<"d", "open_e", "open_e", "n", "g">>>>,
        <<<<"SARA_O", "CHO_CHANG", "KHO_KHWAI">>, <<"c", "h", "o_circumflex", "o", "k">>>>,
        <<<<"LO_LING", "SARA_UU", "KO_KAI">>, <<"l", "u_circumflex", "u", "k">>>>,
        <<<<"SARA_E", "KHO_KHAI", "SARA_II", "YO_YAK", "WO_WAEN">>, <<"k", "i_caron", "a", "o">>>>,
        <<<<"SO_SUA", "WO_WAEN", "MAI_HAN_AKAT", "SO_SUA">>, <<"s", "a_grave", "w", "a_grave", "t">>>>,
        <<<<"O_ANG", "RO_RUA", "MAI_EK", "O_ANG">>, <<"a_grave", "r", "o_grave", "open_o">>>>,
        <<<<"SO_SUA", "WO_WAEN", "MAI_HAN_AKAT", "SO_SUA", "DO_DEK", "SARA_II">>, <<"s", "a_grave", "w", "a_grave", "t", "d", "i", "i">>>>,
        <<<<"KHO_KHAI", "O_ANG", "BO_BAIMAI">>, <<"k", "open_o", "grave", "open_o", "p">>>>,
        <<<<"KHO_KHWAI", "SARA_U", "NO_NEN">>, <<"k", "u", "n">>>>,
        <<<<"KHO_KHWAI", "WO_WAEN", "SARA_AA", "MO_MA">>, <<"k", "w", "a", "a", "m">>>>,
        <<<<"SO_SUA", "SARA_U", "KHO_KHAI">>, <<"s", "u_grave", "k">>>>,
        <<<<"O_ANG", "RO_RUA", "MAI_EK", "O_ANG", "YO_YAK">>, <<"a_grave", "r", "o_grave", "open_o", "i">>>>,
        <<<<"SARA_AI_MAIMALAI", "MO_MA", "MAI_THO">>, <<"m", "a_acute", "i">>>>,
        <<<<"SO_SUA", "WO_WAEN", "YO_YAK">>, <<"s", "u_caron", "a", "i">>>>,
        <<<<"KHO_KHAI", "O_ANG", "BO_BAIMAI", "KHO_KHWAI", "SARA_U", "NO_NEN">>, <<"k", "open_o", "grave", "open_o", "p", "-", "k", "u", "n">>>>,
        <<<<"KHO_KHWAI", "WO_WAEN", "SARA_AA", "MO_MA", "SO_SUA", "SARA_U", "KHO_KHAI">>, <<"k", "w", "a", "a", "m", "-", "s", "u_grave", "k">>>>,
        <<<<"PHO_SAMPHAO", "SARA_AA", "SO_RUSI", "SARA_AA">>, <<"p", "a", "a", "s", "a_caron", "a">>>>,
        <<<<"PHO_SAMPHAO", "SARA_AA", "SO_RUSI", "SARA_AA", "SARA_AI_MAIMALAI", "THO_THAHAN", "YO_YAK">>, <<"p", "a", "a", "s", "a_caron", "a", "-", "t", "a", "i">>>>,
        <<<<"PO_PLA", "RO_RUA", "SARA_A">>, <<"b", "p", "r", "a_grave">>>>,
        <<<<"SARA_E", "THO_THAHAN", "SO_SALA">>, <<"t", "e_circumflex", "e", "t">>>>,
        <<<<"PO_PLA", "RO_RUA", "SARA_A", "SARA_E", "THO_THAHAN", "SO_SALA">>, <<"b", "p", "r", "a_grave", "t", "e_circumflex", "e", "t">>>>,
        <<<<"PO_PLA", "RO_RUA", "SARA_A", "SARA_E", "THO_THAHAN", "SO_SALA", "SARA_AI_MAIMALAI", "THO_THAHAN", "YO_YAK">>, <<"b", "p", "r", "a_grave", "t", "e_circumflex", "e", "t", "-", "t", "a", "i">>>>,
        <<<<"SO_SUA", "NGO_NGU", "KHO_RAKHANG", "THANTHAKHAT">>, <<"s", "o_caron", "n", "g">>>>,
        <<<<"NO_NU", "SARA_I", "PHO_PHAN", "PHO_PHAN", "SARA_AA", "NO_NU">>, <<"n", "i_acute", "p", "-", "p", "a", "a", "n">>>>,
        <<<<"PO_PLA", "RO_RUA", "SARA_I", "NO_NU", "SARA_I", "PHO_PHAN", "PHO_PHAN", "SARA_AA", "NO_NU">>, <<"b", "p", "a_grave", "~", "r", "i_acute", "-", "n", "i_acute", "p", "-", "p", "a", "a", "n">>>>,
        <<<<"PO_PLA", "RO_RUA", "SARA_A", "SO_SUA", "NGO_NGU", "KHO_KHWAI", "THANTHAKHAT">>, <<"b", "p", "r", "a_grave", "~", "s", "o_caron", "n", "g">>>>,
        <<<<"MO_MA", "NO_NU", "TO_TAO", "THANTHAKHAT">>, <<"m", "o", "n">>>>,
        <<<<"SO_SUA", "WO_WAEN", "DO_DEK", "MO_MA", "NO_NU", "TO_TAO", "THANTHAKHAT">>, <<"s", "u_grave", "u", "a", "t", "-", "m", "o", "n">>>>,
        <<<<"O_ANG", "PHO_SAMPHAO", "MAI_HAN_AKAT", "YO_YAK">>, <<"a_grave", "~", "p", "a", "i">>>>,
        <<<<"SARA_E", "MO_MA", "TO_TAO", "TO_TAO", "SARA_AA">>, <<"m", "e_circumflex", "e", "t", "-", "d", "t", "a", "a">>>>,
        <<<<"KO_KAI", "RO_RUA", "SARA_U", "NO_NEN", "SARA_AA">>, <<"g", "a_grave", "~", "r", "u_acute", "~", "n", "a", "a">>>>,
        <<<<"RO_RUA", "SARA_A">>, <<"r", "a_acute">>>>,
        <<<<"KO_KAI", "RO_RUA", "SARA_A">>, <<"g", "r", "a_grave">>>>,
        <<<<"TO_TAO", "RO_RUA", "SARA_A">>, <<"d", "t", "r", "a_grave">>>>,
        <<<<"NGO_NGU", "O_ANG">>, <<"n", "g", "open_o", "open_o">>>>,
        <<<<"NGO_NGU", "SARA_AA">>, <<"n", "g", "a", "a">>>>,
        <<<<"NGO_NGU", "SARA_UU">>, <<"n", "g", "u", "u">>>>,
        <<<<"O_ANG", "YO_YAK", "SARA_UU", "MAI_EK">>, <<"y", "u_grave", "u">>>>,
        <<<<"O_ANG", "YO_YAK", "SARA_AA", "KO_KAI">>, <<"y", "a_grave", "a", "k">>>>
    })

(***************************************************************************)
(* Strings                                                                 *)
(***************************************************************************)
\* strings.Contains
Contains(s, sub) ==
    \E k \in 1..(Len(s) - Len(sub) + 1) : SubSeq(s, k, k + Len(sub) - 1) = sub

\* strings.HasSuffix
HasSuffix(s, suf) ==
    Len(s) >= Len(suf) /\ SubSeq(s, Len(s) - Len(suf) + 1, Len(s)) = suf

RECURSIVE Join(_)
\* strings.Join(parts, "")
Join(parts) == IF parts = <<>> THEN <<>> ELSE Head(parts) \o Join(Tail(parts))

RECURSIVE JoinWith(_, _)
\* strings.Join(parts, sep)
JoinWith(parts, sep) ==
    IF parts = <<>> THEN <<>>
    ELSE IF Len(parts) = 1 THEN Head(parts)
    ELSE Head(parts) \o sep \o JoinWith(Tail(parts), sep)

\* the combining tone marks (canonical combining class 230)
CombiningMarks == {"grave", "acute", "circumflex", "caron"}

\* number of bytes of a code point in UTF-8: ASCII is one byte, the Latin
\* letters and marks up to U+07FF two, Thai and the Vietnamese letters three
utf8Len(r) ==
    IF r \in {"a", "b", "c", "d", "e", "f", "g", "h", "i", "j", "k", "l", "m", "n",
              "o", "p", "r", "s", "t", "u", "w", "y", "x", "~", "-", " "} THEN 1
    ELSE IF r \in {"open_o", "schwa", "open_e", "u_bar"} \cup CombiningMarks THEN 2
    ELSE IF r \in {b \o "_" \o m : b \in {"a", "e", "i", "o", "u"}, m \in CombiningMarks} THEN 2
    ELSE 3

RECURSIVE TrimBytes(_, _)
\* s[:len(s)-n] of a Go string, the length counted in bytes; "bad_utf8" is
\* what is left of a code point that the cut splits
TrimBytes(s, n) ==
    IF n = 0 \/ s = <<>> THEN s
    ELSE LET last == s[Len(s)]
             front == SubSeq(s, 1, Len(s) - 1)
         IN  IF utf8Len(last) <= n THEN TrimBytes(front, n - utf8Len(last))
             ELSE Append(front, "bad_utf8")

(***************************************************************************)
(* Unicode normalization form C on the Latin alphabet of the romanization  *)
(***************************************************************************)
\* primary composites: base letter + mark, and circumflexed letter + mark
Composite ==
    [p \in ({"a", "e", "i", "o", "u"} \X CombiningMarks)
           \cup ({"a_circumflex", "e_circumflex", "o_circumflex"} \X {"grave", "acute"})
        |-> p[1] \o "_" \o p[2]]

Precomposed == {Composite[p] : p \in DOMAIN Composite}

RECURSIVE Decompose(_)
\* canonical decomposition of one code point
Decompose(r) ==
    IF r \in Precomposed
    THEN LET p == CHOOSE q \in DOMAIN Composite : Composite[q] = r
         IN  Decompose(p[1]) \o <<p[2]>>
    ELSE <<r>>

RECURSIVE NFD(_)
\* norm.NFD: all marks here have the same combining class, so no reordering
NFD(s) == IF s = <<>> THEN <<>> ELSE Decompose(Head(s)) \o NFD(Tail(s))

RECURSIVE ComposeFrom(_, _, _, _)
\* canonical composition: out is the output so far, st the index in out of
\* the last starter (0: none), blocked whether a mark after it stayed uncomposed
ComposeFrom(s, out, st, blocked) ==
    IF s = <<>> THEN out
    ELSE LET r == Head(s) IN
         IF r \in CombiningMarks
         THEN IF st > 0 /\ ~blocked /\ <<out[st], r>> \in DOMAIN Composite
              THEN ComposeFrom(Tail(s), [out EXCEPT ![st] = Composite[<<out[st], r>>]], st, FALSE)
              ELSE ComposeFrom(Tail(s), Append(out, r), st, st > 0)
         ELSE ComposeFrom(Tail(s), Append(out, r), Len(out) + 1, FALSE)

\* norm.NFC.String
NFC(s) == ComposeFrom(NFD(s), <<>>, 0, FALSE)

RECURSIVE Graphemes(_)
\* uniseg grapheme clusters: a code point with the combining marks after it
Graphemes(s) ==
    IF s = <<>> THEN <<>>
    ELSE LET n == CHOOSE k \in 1..Len(s) :
                      /\ \A j \in 2..k : s[j] \in CombiningMarks
                      /\ (k = Len(s) \/ s[k + 1] \notin CombiningMarks)
         IN  <<SubSeq(s, 1, n)>> \o Graphemes(SubSeq(s, n + 1, Len(s)))

(***************************************************************************)
(* Vowel-pattern matcher                                                   *)
(***************************************************************************)
VP(p, v, h, pr) == [pattern |-> p, paiboon |-> v, hasFinal |-> h, priority |-> pr]

\* K = cluster position, C = single consonant, T = tone mark
thaiVowelPatterns == <<
    VP(<<"SARA_E", "K", "SARA_II", "YO_YAK", "WO_WAEN", "C">>, <<"i", "a", "o">>, TRUE, 100),
    VP(<<"SARA_E", "C", "SARA_II", "YO_YAK", "WO_WAEN", "C">>, <<"i", "a", "o">>, TRUE, 99),
    VP(<<"SARA_E", "K", "SARA_UEE", "O_ANG", "YO_YAK", "C">>, <<"u_bar", "u_bar", "a", "i">>, TRUE, 98),
    VP(<<"SARA_E", "C", "SARA_UEE", "O_ANG", "YO_YAK", "C">>, <<"u_bar", "u_bar", "a", "i">>, TRUE, 97),
    VP(<<"SARA_E", "K", "SARA_II", "YO_YAK", "WO_WAEN">>, <<"i", "a", "o">>, FALSE, 95),
    VP(<<"SARA_E", "C", "SARA_II", "YO_YAK", "WO_WAEN">>, <<"i", "a", "o">>, FALSE, 94),
    VP(<<"SARA_E", "K", "SARA_UEE", "O_ANG", "C">>, <<"u_bar", "u_bar", "a">>, TRUE, 93),
    VP(<<"SARA_E", "C", "SARA_UEE", "O_ANG", "C">>, <<"u_bar", "u_bar", "a">>, TRUE, 92),
    VP(<<"SARA_E", "K", "SARA_II", "YO_YAK", "C">>, <<"i", "i", "a">>, TRUE, 91),
    VP(<<"SARA_E", "C", "SARA_II", "YO_YAK", "C">>, <<"i", "i", "a">>, TRUE, 90),
    VP(<<"SARA_E", "K", "SARA_I", "T", "C">>, <<"schwa", "schwa">>, TRUE, 89),
    VP(<<"SARA_E", "C", "SARA_I", "T", "C">>, <<"schwa", "schwa">>, TRUE, 88),
    VP(<<"SARA_E", "K", "SARA_II", "YO_YAK">>, <<"i", "i", "a">>, FALSE, 85),
    VP(<<"SARA_E", "C", "SARA_II", "YO_YAK">>, <<"i", "i", "a">>, FALSE, 84),
    VP(<<"SARA_E", "K", "SARA_UEE", "O_ANG">>, <<"u_bar", "u_bar", "a">>, FALSE, 83),
    VP(<<"SARA_E", "C", "SARA_UEE", "O_ANG">>, <<"u_bar", "u_bar", "a">>, FALSE, 82),
    VP(<<"SARA_E", "K", "SARA_AA", "SARA_A">>, <<"open_o">>, FALSE, 81),
    VP(<<"SARA_E", "C", "SARA_AA", "SARA_A">>, <<"open_o">>, FALSE, 80),
    VP(<<"SARA_E", "K", "O_ANG", "SARA_A">>, <<"schwa">>, FALSE, 79),
    VP(<<"SARA_E", "C", "O_ANG", "SARA_A">>, <<"schwa">>, FALSE, 78),
    VP(<<"SARA_E", "K", "SARA_I", "C">>, <<"schwa", "schwa">>, TRUE, 77),
    VP(<<"SARA_E", "C", "SARA_I", "C">>, <<"schwa", "schwa">>, TRUE, 76),
    VP(<<"SARA_E", "K", "SARA_AA", "C">>, <<"a", "o">>, TRUE, 75),
    VP(<<"SARA_E", "C", "SARA_AA", "C">>, <<"a", "o">>, TRUE, 74),
    VP(<<"K", "MAI_HAN_AKAT", "WO_WAEN", "C">>, <<"u", "a">>, TRUE, 73),
    VP(<<"C", "MAI_HAN_AKAT", "WO_WAEN", "C">>, <<"u", "a">>, TRUE, 72),
    VP(<<"K", "SARA_AA", "YO_YAK">>, <<"a", "a", "i">>, FALSE, 71),
    VP(<<"K", "SARA_AA", "WO_WAEN">>, <<"a", "a", "o">>, FALSE, 70),
    VP(<<"SARA_AE", "K", "MAITAIKHU", "C">>, <<"open_e">>, TRUE, 69),
    VP(<<"SARA_AE", "C", "MAITAIKHU", "C">>, <<"open_e">>, TRUE, 68),
    VP(<<"SARA_AE", "K", "C", "C">>, <<"open_e", "open_e">>, TRUE, 67),
    VP(<<"SARA_O", "K", "C", "C">>, <<"o", "o">>, TRUE, 66),
    VP(<<"K", "RO_RUA", "RO_RUA", "C">>, <<"a">>, TRUE, 65),
    VP(<<"C", "RO_RUA", "RO_RUA", "C">>, <<"a">>, TRUE, 64),
    VP(<<"K", "RO_RUA", "SARA_A", "C">>, <<"a_grave">>, TRUE, 68),
    VP(<<"C", "RO_RUA", "SARA_A", "C">>, <<"a_grave">>, TRUE, 67),
    VP(<<"K", "RO_RUA", "SARA_A">>, <<"a_grave">>, FALSE, 66),
    VP(<<"C", "RO_RUA", "SARA_A">>, <<"a_grave">>, FALSE, 65),
    VP(<<"K", "RO_RUA", "SARA_AA", "C">>, <<"a", "a">>, TRUE, 64),
    VP(<<"C", "RO_RUA", "SARA_AA", "C">>, <<"a", "a">>, TRUE, 63),
    VP(<<"K", "RO_RUA", "SARA_AA">>, <<"a", "a">>, FALSE, 62),
    VP(<<"C", "RO_RUA", "SARA_AA">>, <<"a", "a">>, FALSE, 61),
    VP(<<"SARA_E", "K", "O_ANG">>, <<"schwa", "schwa">>, FALSE, 60),
    VP(<<"SARA_E", "C", "O_ANG">>, <<"schwa", "schwa">>, FALSE, 59),
    VP(<<"SARA_E", "K", "SARA_AA">>, <<"a", "o">>, FALSE, 58),
    VP(<<"SARA_E", "C", "SARA_AA">>, <<"a", "o">>, FALSE, 57),
    VP(<<"SARA_E", "K", "YO_YAK">>, <<"schwa", "schwa", "i">>, FALSE, 56),
    VP(<<"SARA_E", "C", "YO_YAK">>, <<"schwa", "schwa", "i">>, FALSE, 55),
    VP(<<"SARA_E", "K", "WO_WAEN">>, <<"e", "e", "o">>, FALSE, 54),
    VP(<<"SARA_E", "C", "WO_WAEN">>, <<"e", "e", "o">>, FALSE, 53),
    VP(<<"SARA_E", "K", "MAITAIKHU", "C">>, <<"e">>, TRUE, 52),
    VP(<<"SARA_E", "C", "MAITAIKHU", "C">>, <<"e">>, TRUE, 51),
    VP(<<"SARA_E", "K", "C">>, <<"e", "e">>, TRUE, 50),
    VP(<<"SARA_E", "C", "C">>, <<"e", "e">>, TRUE, 49),
    VP(<<"SARA_AE", "K", "SARA_A">>, <<"open_e">>, FALSE, 48),
    VP(<<"SARA_AE", "C", "SARA_A">>, <<"open_e">>, FALSE, 47),
    VP(<<"SARA_AE", "K", "C">>, <<"open_e", "open_e">>, TRUE, 46),
    VP(<<"SARA_AE", "C", "C">>, <<"open_e", "open_e">>, TRUE, 45),
    VP(<<"SARA_AE", "K", "WO_WAEN">>, <<"open_e", "open_e", "o">>, FALSE, 44),
    VP(<<"SARA_AE", "C", "WO_WAEN">>, <<"open_e", "open_e", "o">>, FALSE, 43),
    VP(<<"SARA_O", "K", "SARA_A">>, <<"o">>, FALSE, 42),
    VP(<<"SARA_O", "C", "SARA_A">>, <<"o">>, FALSE, 41),
    VP(<<"SARA_O", "K", "C">>, <<"o", "o">>, TRUE, 40),
    VP(<<"SARA_O", "C", "C">>, <<"o", "o">>, TRUE, 39),
    VP(<<"SARA_O", "K", "YO_YAK">>, <<"o", "o", "i">>, FALSE, 38),
    VP(<<"SARA_O", "C", "YO_YAK">>, <<"o", "o", "i">>, FALSE, 37),
    VP(<<"SARA_AI_MAIMALAI", "K", "YO_YAK">>, <<"a", "i">>, FALSE, 36),
    VP(<<"SARA_AI_MAIMALAI", "C", "YO_YAK">>, <<"a", "i">>, FALSE, 35),
    VP(<<"SARA_AI_MAIMUAN", "K", "YO_YAK">>, <<"a", "i">>, FALSE, 34),
    VP(<<"SARA_AI_MAIMUAN", "C", "YO_YAK">>, <<"a", "i">>, FALSE, 33),
    VP(<<"K", "MAI_HAN_AKAT", "WO_WAEN">>, <<"u", "a">>, FALSE, 32),
    VP(<<"C", "MAI_HAN_AKAT", "WO_WAEN">>, <<"u", "a">>, FALSE, 31),
    VP(<<"K", "WO_WAEN", "YO_YAK">>, <<"u", "a", "i">>, FALSE, 32),
    VP(<<"C", "WO_WAEN", "YO_YAK">>, <<"u", "a", "i">>, FALSE, 31),
    VP(<<"C", "SARA_AA", "YO_YAK">>, <<"a", "a", "i">>, FALSE, 28),
    VP(<<"C", "SARA_AA", "WO_WAEN">>, <<"a", "a", "o">>, FALSE, 27),
    VP(<<"K", "RO_RUA", "RO_RUA">>, <<"a", "n">>, FALSE, 26),
    VP(<<"C", "RO_RUA", "RO_RUA">>, <<"a", "n">>, FALSE, 25),
    VP(<<"K", "MAI_HAN_AKAT", "C">>, <<"a">>, TRUE, 24),
    VP(<<"K", "SARA_AA", "C">>, <<"a", "a">>, TRUE, 23),
    VP(<<"K", "SARA_I", "C">>, <<"i">>, TRUE, 22),
    VP(<<"K", "SARA_II", "C">>, <<"i", "i">>, TRUE, 21),
    VP(<<"K", "SARA_UE", "C">>, <<"u_bar">>, TRUE, 20),
    VP(<<"K", "SARA_UEE", "C">>, <<"u_bar", "u_bar">>, TRUE, 19),
    VP(<<"K", "SARA_U", "C">>, <<"u">>, TRUE, 18),
    VP(<<"K", "SARA_UU", "C">>, <<"u", "u">>, TRUE, 17),
    VP(<<"K", "O_ANG", "C">>, <<"open_o", "open_o">>, TRUE, 16),
    VP(<<"SARA_E", "K">>, <<"e", "e">>, FALSE, 15),
    VP(<<"SARA_E", "C">>, <<"e", "e">>, FALSE, 14),
    VP(<<"SARA_AE", "K">>, <<"open_e", "open_e">>, FALSE, 13),
    VP(<<"SARA_AE", "C">>, <<"open_e", "open_e">>, FALSE, 12),
    VP(<<"SARA_O", "K">>, <<"o", "o">>, FALSE, 11),
    VP(<<"SARA_O", "C">>, <<"o", "o">>, FALSE, 10),
    VP(<<"SARA_AI_MAIMALAI", "K">>, <<"a", "i">>, FALSE, 9),
    VP(<<"SARA_AI_MAIMALAI", "C">>, <<"a", "i">>, FALSE, 8),
    VP(<<"SARA_AI_MAIMUAN", "K">>, <<"a", "i">>, FALSE, 7),
    VP(<<"SARA_AI_MAIMUAN", "C">>, <<"a", "i">>, FALSE, 6),
    VP(<<"C", "SARA_A">>, <<"a">>, FALSE, 5),
    VP(<<"C", "MAI_HAN_AKAT", "T", "C">>, <<"a">>, TRUE, 4),
    VP(<<"C", "MAI_HAN_AKAT", "C">>, <<"a">>, TRUE, 3),
    VP(<<"C", "SARA_AA">>, <<"a", "a">>, FALSE, 2),
    VP(<<"C", "SARA_AA", "T", "C">>, <<"a", "a">>, TRUE, 1),
    VP(<<"C", "SARA_AA", "C">>, <<"a", "a">>, TRUE, 0),
    VP(<<"C", "SARA_AM">>, <<"a", "m">>, FALSE, -1),
    VP(<<"C", "SARA_I", "T", "C">>, <<"i">>, TRUE, -2),
    VP(<<"C", "SARA_I", "C">>, <<"i">>, TRUE, -3),
    VP(<<"C", "SARA_I">>, <<"i">>, FALSE, -4),
    VP(<<"C", "SARA_II", "T", "C">>, <<"i", "i">>, TRUE, -5),
    VP(<<"C", "SARA_II", "C">>, <<"i", "i">>, TRUE, -6),
    VP(<<"C", "SARA_II">>, <<"i", "i">>, FALSE, -7),
    VP(<<"C", "SARA_UE", "T", "C">>, <<"u_bar">>, TRUE, -8),
    VP(<<"C", "SARA_UE", "C">>, <<"u_bar">>, TRUE, -9),
    VP(<<"C", "SARA_UE">>, <<"u_bar">>, FALSE, -10),
    VP(<<"C", "SARA_UEE", "C">>, <<"u_bar", "u_bar">>, TRUE, -11),
    VP(<<"C", "SARA_UEE">>, <<"u_bar", "u_bar">>, FALSE, -12),
    VP(<<"C", "SARA_U", "T", "C">>, <<"u">>, TRUE, -13),
    VP(<<"C", "SARA_U", "C">>, <<"u">>, TRUE, -14),
    VP(<<"C", "SARA_U">>, <<"u">>, FALSE, -15),
    VP(<<"C", "SARA_UU", "T", "C">>, <<"u", "u">>, TRUE, -16),
    VP(<<"C", "SARA_UU", "C">>, <<"u", "u">>, TRUE, -17),
    VP(<<"C", "SARA_UU">>, <<"u", "u">>, FALSE, -18),
    VP(<<"C", "T", "O_ANG", "C">>, <<"open_o", "open_o">>, TRUE, -19),
    VP(<<"C", "O_ANG", "T", "C">>, <<"open_o", "open_o">>, TRUE, -20),
    VP(<<"C", "O_ANG", "C">>, <<"open_o", "open_o">>, TRUE, -21),
    VP(<<"C", "O_ANG">>, <<"open_o", "open_o">>, FALSE, -22),
    VP(<<"C", "MAITAIKHU", "O_ANG", "C">>, <<"open_o">>, TRUE, -23),
    VP(<<"C", "RO_RUA">>, <<"open_o", "open_o", "n">>, FALSE, -24),
    VP(<<"C", "C">>, <<"o">>, TRUE, -100),
    VP(<<"C">>, <<"open_o", "open_o">>, FALSE, -101)
>>

\* the comparison of the sort: longer patterns first, then higher priority
PatternLess(a, b) ==
    IF Len(a.pattern) # Len(b.pattern) THEN Len(a.pattern) > Len(b.pattern)
    ELSE a.priority > b.priority

\* the place of pattern k after the sort: the patterns that go before it are
\* those that compare less and, of those that compare equal, the ones
\* declared earlier
SortedPlace(k) ==
    1 + Cardinality({j \in 1..Len(thaiVowelPatterns) :
                        \/ PatternLess(thaiVowelPatterns[j], thaiVowelPatterns[k])
                        \/ /\ ~PatternLess(thaiVowelPatterns[k], thaiVowelPatterns[j])
                           /\ j < k})

\* what init leaves in sortedVowelPatterns: the patterns sorted by length,
\* then by priority
SortedPatterns ==
    [n \in 1..Len(thaiVowelPatterns) |->
        thaiVowelPatterns[CHOOSE k \in 1..Len(thaiVowelPatterns) : SortedPlace(k) = n]]

(***************************************************************************)
(* Tone application of the matcher                                         *)
(***************************************************************************)
\* the romanized final of a Thai final consonant; <<>> when it has none
FinalTrans(finalCons) == Lookup(finalConsonants, finalCons, <<>>)

\* isLiveSyllable determines if a syllable is live or dead
isLiveSyllable(vowel, finalCons) ==
    LET Live(trans) ==
            IF trans \in {<<"p">>, <<"t">>, <<"k">>} THEN FALSE
            ELSE IF \E lv \in {<<"a", "a">>, <<"i", "i">>, <<"u_bar", "u_bar">>, <<"u", "u">>,
                               <<"e", "e">>, <<"open_e", "open_e">>, <<"o", "o">>,
                               <<"open_o", "open_o">>, <<"schwa", "schwa">>, <<"i", "i", "a">>,
                               <<"u_bar", "u_bar", "a">>, <<"u", "u", "a">>, <<"a", "i">>,
                               <<"a", "o">>, <<"a", "a", "i">>, <<"a", "a", "o">>} :
                      Contains(vowel, lv)
            THEN TRUE
            ELSE IF finalCons = "" THEN TRUE
            ELSE trans \in {<<"m">>, <<"n">>, <<"n", "g">>, <<"i">>, <<"o">>}
    IN  Live(FinalTrans(finalCons))

\* isLongVowel checks if a romanized vowel is long
isLongVowel(vowel) ==
    \E lp \in {<<"a", "a", "i">>, <<"a", "a", "o">>, <<"a", "a">>, <<"i", "i">>,
               <<"u_bar", "u_bar">>, <<"u", "u">>, <<"e", "e">>, <<"open_e", "open_e">>,
               <<"o", "o">>, <<"open_o", "open_o">>, <<"schwa", "schwa">>,
               <<"i", "i", "a">>, <<"u_bar", "u_bar", "a">>, <<"u", "u", "a">>} :
        Contains(vowel, lp)

\* the combining mark of a tone number
ToneMarkOf(toneNum) ==
    CASE toneNum = 1 -> "grave"
      [] toneNum = 2 -> "acute"
      [] toneNum = 3 -> "circumflex"
      [] toneNum = 4 -> "caron"

\* addToneDiacritic adds tone diacritic to first vowel in result
addToneDiacritic(text, toneNum) ==
    IF toneNum = 0 THEN text
    ELSE LET vowelAt == {k \in 1..Len(text) : isRomanVowel(text[k])}
             Mark(k) == NFC(SubSeq(text, 1, k) \o <<ToneMarkOf(toneNum)>>
                            \o SubSeq(text, k + 1, Len(text)))
         IN  IF \E k \in 1..Len(text) : isRomanVowel(text[k])
             THEN Mark(CHOOSE j \in vowelAt : \A m \in vowelAt : j <= m)
             ELSE text

\* the tone class of a single consonant; "mid" is the default
ClassOfKey(toneKey) ==
    IF toneKey \in highClass THEN "high"
    ELSE IF toneKey \in lowClass THEN "low"
    ELSE "mid"

\* the tone class applyToneToResult determines
MatcherToneClass(initialCons, cluster) ==
    LET Class(tc0, toneKey) == IF tc0 = "mid" THEN ClassOfKey(toneKey) ELSE tc0
    IN  Class(Lookup(clusterToneClass, cluster, "mid"),
              IF cluster # <<>> /\ cluster \notin DOMAIN clusterToneClass
              THEN cluster[1] ELSE initialCons)

\* the tone number applyToneToResult calculates
MatcherToneNum(initialCons, cluster, toneMark, vowel, finalCons) ==
    calculateToneNum(MatcherToneClass(initialCons, cluster),
                     isLiveSyllable(vowel, finalCons), toneMark, isLongVowel(vowel))

\* applyToneToResult applies tone marking to the romanized result
applyToneToResult(result, initialCons, cluster, toneMark, vowel, finalCons) ==
    LET Apply(toneNum) == IF toneNum = 0 THEN result ELSE addToneDiacritic(result, toneNum)
    IN  Apply(MatcherToneNum(initialCons, cluster, toneMark, vowel, finalCons))

(***************************************************************************)
(* matchPatternImproved                                                    *)
(***************************************************************************)
MatchStart ==
    [wordIdx |-> 0, patIdx |-> 0, initialCons |-> "", initialCluster |-> <<>>,
     finalCons |-> "", toneMark |-> "", isCluster |-> FALSE, ok |-> TRUE]

RECURSIVE matchLoop(_, _, _)
\* the loop over the pattern; ok = FALSE is the early "return false"
matchLoop(rs, pat, st) ==
    IF ~(st.patIdx < Len(pat) /\ st.wordIdx < Len(rs)) THEN st
    ELSE LET patChar == pat[st.patIdx + 1] IN
         CASE patChar = "K" ->
                IF st.wordIdx + 1 >= Len(rs) THEN [st EXCEPT !.ok = FALSE]
                ELSE LET c1 == rs[st.wordIdx + 1]
                         c2 == rs[st.wordIdx + 2]
                     IN  IF ~isConsonant(c1) \/ ~isConsonant(c2) THEN [st EXCEPT !.ok = FALSE]
                         ELSE IF <<c1, c2>> \notin DOMAIN clusters THEN [st EXCEPT !.ok = FALSE]
                         ELSE matchLoop(rs, pat,
                                 [st EXCEPT !.initialCluster = <<c1, c2>>, !.initialCons = c1,
                                            !.isCluster = TRUE, !.wordIdx = @ + 2, !.patIdx = @ + 1])
           [] patChar = "C" ->
                IF ~isConsonant(rs[st.wordIdx + 1]) THEN [st EXCEPT !.ok = FALSE]
                ELSE IF st.initialCons = "" /\ ~st.isCluster
                THEN matchLoop(rs, pat, [st EXCEPT !.initialCons = rs[st.wordIdx + 1],
                                                   !.wordIdx = @ + 1, !.patIdx = @ + 1])
                ELSE matchLoop(rs, pat, [st EXCEPT !.finalCons = rs[st.wordIdx + 1],
                                                   !.wordIdx = @ + 1, !.patIdx = @ + 1])
           [] patChar = "T" ->
                IF st.wordIdx < Len(rs) /\ isToneMark(rs[st.wordIdx + 1])
                THEN matchLoop(rs, pat, [st EXCEPT !.toneMark = rs[st.wordIdx + 1],
                                                   !.wordIdx = @ + 1, !.patIdx = @ + 1])
                ELSE matchLoop(rs, pat, [st EXCEPT !.patIdx = @ + 1])
           [] OTHER ->
                IF rs[st.wordIdx + 1] # patChar THEN [st EXCEPT !.ok = FALSE]
                ELSE matchLoop(rs, pat, [st EXCEPT !.wordIdx = @ + 1, !.patIdx = @ + 1])

\* the romanization before the tone: initial, vowel, final
MatchedBase(st, paiboon) ==
    LET Close(result, trans) ==
            \* Adjust for closed syllable inherent vowel
            IF HasSuffix(paiboon, <<"open_o", "open_o">>) /\ trans # <<>>
            THEN TrimBytes(result, 2) \o <<"o">> \o trans
            ELSE result \o trans
    IN  Close((IF st.isCluster
               THEN Lookup(clusters, st.initialCluster, <<>>)
               ELSE Lookup(initialConsonants, st.initialCons, <<>>)) \o paiboon,
              FinalTrans(st.finalCons))

\* matchPatternImproved checks if word matches a vowel pattern
matchPatternImproved(word, pattern, paiboon) ==
    LET Built(st, base) ==
            [match |-> TRUE,
             result |-> applyToneToResult(base, st.initialCons, st.initialCluster,
                                          st.toneMark, paiboon, st.finalCons),
             base |-> base, st |-> st, pattern |-> pattern, paiboon |-> paiboon]
        Finish(st) ==
            IF ~st.ok \/ st.patIdx # Len(pattern) \/ st.wordIdx # Len(word)
            THEN [match |-> FALSE]
            ELSE Built(st, MatchedBase(st, paiboon))
    IN  IF Len(pattern) = 0 \/ Len(word) = 0 THEN [match |-> FALSE]
        ELSE Finish(matchLoop(word, pattern, MatchStart))

\* what matchPatternImproved answers for each pattern of the sorted list
PatternMatches(word) ==
    [k \in 1..Len(sortedVowelPatterns) |->
        matchPatternImproved(word, sortedVowelPatterns[k].pattern,
                             sortedVowelPatterns[k].paiboon)]

\* a loop that keeps the match of the last pattern that matches
LastMatch(word) ==
    LET Pick(ms, matching) ==
            IF matching = {} THEN [match |-> FALSE]
            ELSE ms[CHOOSE j \in matching : \A m \in matching : j >= m]
        Last(ms) == Pick(ms, {k \in DOMAIN ms : ms[k].match})
    IN  Last(PatternMatches(word))

\* the loop over the sorted list: the match of the first pattern that matches
FirstMatch(word) ==
    LET Pick(ms, matching) ==
            IF matching = {} THEN [match |-> FALSE]
            ELSE ms[CHOOSE j \in matching : \A m \in matching : j <= m]
        First(ms) == Pick(ms, {k \in DOMAIN ms : ms[k].match})
    IN  First(PatternMatches(word))

\* the match improvedTransliterate returns the result of
improvedMatch(word) ==
    IF word = <<>> THEN [match |-> FALSE]
    ELSE FirstMatch(RemoveSilentConsonants(word))

\* improvedTransliterate uses pattern matching for better accuracy
improvedTransliterate(word) ==
    LET Result(m) == IF m.match THEN m.result ELSE <<>> IN Result(improvedMatch(word))

(***************************************************************************)
(* Comprehensive syllable parser                                           *)
(***************************************************************************)
\* the zero value of ComprehensiveSyllable; Vowel2 and Silent are strings
\* that grow, the other fields hold one code point or ""
EmptySyllable ==
    [LeadingVowel |-> "", Initial1 |-> "", Initial2 |-> "", Vowel1 |-> "", Tone |-> "",
     Vowel2 |-> <<>>, Final1 |-> "", Final2 |-> "", Silent |-> <<>>]

\* steps 1 and 2 of parseThaiSyllable: the record and the index i reached
ParseInitials(runes) ==
    LET Parsed(lead, i1, hasInitial, i2, second, taken) ==
            [cs |-> [EmptySyllable EXCEPT
                        !.LeadingVowel = IF lead THEN runes[1] ELSE "",
                        !.Initial1 = IF hasInitial THEN runes[i1 + 1] ELSE "",
                        !.Initial2 = IF taken THEN second ELSE ""],
             i |-> IF taken THEN i2 + 1 ELSE i2]
        \* a second consonant is taken when it makes a cluster
        Second(lead, i1, hasInitial, i2, second) ==
            Parsed(lead, i1, hasInitial, i2, second,
                   /\ second # ""
                   /\ \/ second = "RO_RUA"
                      \/ <<runes[i1 + 1], second>> \in DOMAIN clusters
                      \/ runes[i1 + 1] = "HO_HIP"
                         /\ second \in {"NO_NU", "MO_MA", "LO_LING", "WO_WAEN", "YO_YAK"})
        Initial(lead, i1, hasInitial, i2) ==
            Second(lead, i1, hasInitial, i2,
                   IF hasInitial /\ i2 < Len(runes) /\ isConsonant(runes[i2 + 1])
                   THEN runes[i2 + 1] ELSE "")
        First(lead, i1, hasInitial) ==
            Initial(lead, i1, hasInitial, IF hasInitial THEN i1 + 1 ELSE i1)
        Leading(lead, i1) == First(lead, i1, i1 < Len(runes) /\ isConsonant(runes[i1 + 1]))
        Start(lead) == Leading(lead, IF lead THEN 1 ELSE 0)
    IN  Start(Len(runes) > 0 /\ isLeadingVowel(runes[1]))

RECURSIVE ParseRest(_, _, _)
\* step 3 of parseThaiSyllable: vowels, tone marks, special marks, finals
ParseRest(runes, i, cs) ==
    IF i >= Len(runes) THEN cs
    ELSE LET r == runes[i + 1] IN
         IF isVowel(r)
         THEN IF cs.Vowel1 = "" THEN ParseRest(runes, i + 1, [cs EXCEPT !.Vowel1 = r])
              ELSE ParseRest(runes, i + 1, [cs EXCEPT !.Vowel2 = Append(@, r)])
         ELSE IF isToneMark(r) THEN ParseRest(runes, i + 1, [cs EXCEPT !.Tone = r])
         ELSE IF r \in {"MAITAIKHU", "THANTHAKHAT", "NIKHAHIT", "MAIYAMOK"}
         THEN ParseRest(runes, i + 1, [cs EXCEPT !.Silent = Append(@, r)])
         ELSE IF isConsonant(r)
         THEN IF cs.Final1 = "" THEN ParseRest(runes, i + 1, [cs EXCEPT !.Final1 = r])
              ELSE ParseRest(runes, i + 1, [cs EXCEPT !.Final2 = r])
         ELSE ParseRest(runes, i + 1, cs)

\* parseThaiSyllable parses a Thai syllable comprehensively
parseThaiSyllable(syl) ==
    LET Rest(runes, p) == ParseRest(runes, p.i, p.cs)
        Parse(runes) == Rest(runes, ParseInitials(runes))
    IN  Parse(RemoveSilentConsonants(syl))

(***************************************************************************)
(* Comprehensive syllable builder                                          *)
(***************************************************************************)
\* the initial sound; skip is vowelSound = "skip", Vowel1 the field after it
BuildInitial(cs) ==
    LET \* cl and ic are the maps clusters and initialConsonants
        Initial(cl, ic) ==
            IF cs.Initial2 # ""
            THEN IF <<cs.Initial1, cs.Initial2>> \in DOMAIN cl
                 THEN [initialSound |-> cl[<<cs.Initial1, cs.Initial2>>],
                       Vowel1 |-> cs.Vowel1, skip |-> FALSE]
                 ELSE IF cs.Initial2 = "RO_RUA" /\ (cs.Vowel1 = "SARA_A" \/ cs.Vowel1 = "SARA_AA")
                 THEN IF cs.Initial1 \in DOMAIN ic
                      THEN IF cs.Vowel1 = "SARA_A"
                           THEN [initialSound |-> ic[cs.Initial1] \o <<"r">> \o <<"a_grave", "~">>,
                                 Vowel1 |-> "", skip |-> TRUE]
                           ELSE [initialSound |-> ic[cs.Initial1] \o <<"r">>,
                                 Vowel1 |-> cs.Vowel1, skip |-> FALSE]
                      ELSE [initialSound |-> <<>>, Vowel1 |-> cs.Vowel1, skip |-> FALSE]
                 ELSE [initialSound |-> IF cs.Initial1 = "HO_HIP"
                                        THEN Lookup(ic, cs.Initial2, <<>>) ELSE <<>>,
                       Vowel1 |-> cs.Vowel1, skip |-> FALSE]
            ELSE [initialSound |-> Lookup(ic, cs.Initial1, <<>>),
                  Vowel1 |-> cs.Vowel1, skip |-> FALSE]
    IN  Initial(clusters, initialConsonants)

\* the vowel sound and the finals after it, for a syllable led by SARA E
BuildVowelE(cs) ==
    LET v(s) == [vowelSound |-> s, Final1 |-> cs.Final1, Final2 |-> cs.Final2]
        vf(s, f1, f2) == [vowelSound |-> s, Final1 |-> f1, Final2 |-> f2]
    IN  IF cs.Vowel1 = "SARA_II" /\ cs.Vowel2 = <<"YO_YAK">> THEN v(<<"i", "i", "a">>)
        ELSE IF cs.Vowel1 = "SARA_II" /\ cs.Final1 = "YO_YAK" THEN vf(<<"i", "i", "a">>, cs.Final2, "")
        ELSE IF cs.Vowel1 = "SARA_UEE" /\ cs.Vowel2 = <<"O_ANG">> THEN v(<<"u_bar", "u_bar", "a">>)
        ELSE IF cs.Vowel1 = "SARA_UEE" /\ cs.Final1 = "O_ANG" THEN vf(<<"u_bar", "u_bar", "a">>, "n", cs.Final2)
        ELSE IF cs.Vowel1 = "" /\ cs.Final1 = "YO_YAK" THEN vf(<<"schwa", "schwa", "i">>, "", cs.Final2)
        ELSE IF cs.Vowel1 = "SARA_AA" THEN v(<<"a", "o">>)
        ELSE IF cs.Vowel1 = "SARA_I" THEN v(<<"schwa", "schwa">>)
        ELSE IF cs.Vowel1 = "O_ANG"
        THEN IF cs.Final1 = "SARA_A" THEN vf(<<"schwa">>, "", cs.Final2) ELSE v(<<"schwa", "schwa">>)
        ELSE IF cs.Vowel1 = "MAITAIKHU" THEN v(<<"e">>)
        ELSE IF cs.Vowel1 = "SARA_AA" /\ cs.Vowel2 = <<"SARA_A">> THEN v(<<"open_o">>)
        ELSE IF cs.Vowel1 = "SARA_II" /\ cs.Vowel2 = <<"YO_YAK">> /\ cs.Final1 = "WO_WAEN"
        THEN vf(<<"i", "a", "o">>, "", cs.Final2)
        ELSE IF cs.Vowel1 = "SARA_II" /\ cs.Final1 = "MAI_EK" THEN v(<<"i", "i">>)
        ELSE IF cs.Vowel1 = "" THEN v(<<"e", "e">>)
        ELSE v(<<>>)

\* the vowel sound and the finals after it, without a leading vowel
BuildVowelPlain(cs) ==
    LET v(s) == [vowelSound |-> s, Final1 |-> cs.Final1, Final2 |-> cs.Final2] IN
    IF cs.Vowel1 = "MAI_HAN_AKAT" /\ cs.Vowel2 = <<"WO_WAEN">> THEN v(<<"u", "a">>)
    ELSE IF cs.Vowel1 = "SARA_I" /\ cs.Vowel2 = <<"WO_WAEN">> THEN v(<<"i", "o">>)
    ELSE IF cs.Vowel1 = "SARA_UEE" /\ cs.Vowel2 = <<"O_ANG">> THEN v(<<"u_bar", "u_bar", "a">>)
    ELSE IF cs.Vowel1 = "SARA_AA" /\ cs.Vowel2 = <<"YO_YAK">> THEN v(<<"a", "a", "i">>)
    ELSE IF cs.Vowel1 = "SARA_AA" /\ cs.Vowel2 = <<"WO_WAEN">> THEN v(<<"a", "a", "o">>)
    ELSE IF cs.Initial1 = "RO_RUA" /\ cs.Vowel1 = "" /\ cs.Vowel2 = <<>>
    THEN [vowelSound |-> <<"open_o", "open_o">>, Final1 |-> IF cs.Final1 = "" THEN "n" ELSE cs.Final1,
          Final2 |-> cs.Final2]
    ELSE IF cs.Vowel1 = "SARA_AA" THEN v(<<"a", "a">>)
    ELSE IF cs.Vowel1 = "SARA_A" THEN v(<<"a">>)
    ELSE IF cs.Vowel1 = "MAI_HAN_AKAT" THEN v(<<"a">>)
    ELSE IF cs.Vowel1 = "SARA_I" THEN v(<<"i">>)
    ELSE IF cs.Vowel1 = "SARA_II" THEN v(<<"i", "i">>)
    ELSE IF cs.Vowel1 = "SARA_UE" THEN v(<<"u_bar">>)
    ELSE IF cs.Vowel1 = "SARA_UEE" THEN v(<<"u_bar", "u_bar">>)
    ELSE IF cs.Vowel1 = "SARA_U" THEN v(<<"u">>)
    ELSE IF cs.Vowel1 = "SARA_UU" THEN v(<<"u", "u">>)
    ELSE IF cs.Vowel1 = "SARA_AM" THEN v(<<"a", "m">>)
    ELSE IF cs.Vowel1 = "WO_WAEN" /\ cs.Final1 = "" THEN v(<<"u", "a">>)
    ELSE IF cs.Vowel1 = "" /\ cs.Vowel2 = <<>>
    THEN IF cs.Final1 = "" THEN v(<<"open_o", "open_o">>)
         ELSE IF cs.Final1 = "RO_RUA" THEN v(<<"open_o", "open_o">>)
         ELSE v(<<"o">>)
    ELSE v(<<>>)

\* the vowel sound by the leading vowel; cs has the Vowel1 of BuildInitial
BuildVowel(cs) ==
    LET v(s) == [vowelSound |-> s, Final1 |-> cs.Final1, Final2 |-> cs.Final2] IN
    IF cs.LeadingVowel = "SARA_E" THEN BuildVowelE(cs)
    ELSE IF cs.LeadingVowel = "SARA_AE"
    THEN IF cs.Vowel1 = "" THEN v(<<"open_e", "open_e">>)
         ELSE IF cs.Vowel1 = "SARA_A" THEN v(<<"open_e">>)
         ELSE IF cs.Vowel1 = "MAITAIKHU" THEN v(<<"open_e">>)
         ELSE v(<<>>)
    ELSE IF cs.LeadingVowel = "SARA_O"
    THEN IF cs.Vowel1 = "" THEN v(<<"o", "o">>)
         ELSE IF cs.Vowel1 = "SARA_A" THEN v(<<"o">>)
         ELSE v(<<>>)
    ELSE IF cs.LeadingVowel = "SARA_AI_MAIMALAI" \/ cs.LeadingVowel = "SARA_AI_MAIMUAN" THEN v(<<"a", "i">>)
    ELSE BuildVowelPlain(cs)

\* the final consonant sound of the builder
BuildFinal(final1, silent) ==
    IF final1 # "" /\ ~Contains(silent, <<"THANTHAKHAT">>)
    THEN IF final1 = "n" THEN <<"n">> ELSE FinalTrans(final1)
    ELSE <<>>

\* the tone class the builder determines
BuilderToneClass(cs) ==
    IF cs.Initial1 = "HO_HIP" /\ cs.Initial2 # "" THEN "high"
    ELSE IF cs.Initial1 \in highClass THEN "high"
    ELSE IF cs.Initial1 \in lowClass THEN "low"
    ELSE "mid"

\* whether the builder takes the syllable for live
BuilderIsLive(finalSound, vowelSound) ==
    \/ finalSound = <<>> \/ finalSound = <<"n">> \/ finalSound = <<"m">> \/ finalSound = <<"n", "g">>
    \/ \E lv \in {<<"a", "a">>, <<"i", "i">>, <<"u_bar", "u_bar">>, <<"u", "u">>, <<"e", "e">>, <<"open_e", "open_e">>, <<"o", "o">>, <<"open_o", "open_o">>} :
           Contains(vowelSound, lv)

\* the tone number of the builder
BuilderToneNum(toneClass, isLive, tone) ==
    IF tone = ""
    THEN IF toneClass = "low" /\ ~isLive THEN 2
         ELSE IF toneClass = "high" /\ isLive THEN 4
         ELSE IF toneClass = "high" /\ ~isLive THEN 1
         ELSE IF toneClass = "mid" /\ ~isLive THEN 1
         ELSE 0
    ELSE CASE tone = "MAI_EK" -> IF toneClass = "low" THEN 3 ELSE 1
           [] tone = "MAI_THO" -> IF toneClass = "low" THEN 2 ELSE 3
           [] tone = "MAI_TRI" -> IF toneClass = "mid" THEN 2 ELSE 0
           [] tone = "MAI_CHATTAWA" -> IF toneClass = "mid" THEN 4 ELSE 0
           [] OTHER -> 0

RECURSIVE PlaceTone(_, _, _)
\* the loop over the grapheme clusters: the mark goes after the first
\* cluster that holds a roman vowel
PlaceTone(graphemes, mark, tonePlaced) ==
    IF graphemes = <<>> THEN <<>>
    ELSE LET cluster == Head(graphemes) IN
         IF ~tonePlaced /\ Len(cluster) > 0 /\ \E k \in 1..Len(cluster) : isRomanVowel(cluster[k])
         THEN cluster \o <<mark>> \o PlaceTone(Tail(graphemes), mark, TRUE)
         ELSE cluster \o PlaceTone(Tail(graphemes), mark, tonePlaced)

\* the parts buildPaiboonFromSyllable computes before it assembles the result
BuildParts(cs) ==
    LET Parts(ini, vow, finalSound, toneClass, isLive) ==
            [initialSound |-> ini.initialSound, vowelSound |-> vow.vowelSound,
             finalSound |-> finalSound, toneClass |-> toneClass, isLive |-> isLive,
             toneNum |-> BuilderToneNum(toneClass, isLive, cs.Tone),
             base |-> ini.initialSound \o vow.vowelSound \o finalSound]
        WithFinal(ini, vow, finalSound) ==
            Parts(ini, vow, finalSound, BuilderToneClass(cs),
                  BuilderIsLive(finalSound, vow.vowelSound))
        WithVowel(ini, vow) == WithFinal(ini, vow, BuildFinal(vow.Final1, cs.Silent))
        WithInitial(ini) ==
            WithVowel(ini, IF ini.skip
                           THEN [vowelSound |-> <<>>, Final1 |-> cs.Final1, Final2 |-> cs.Final2]
                           ELSE BuildVowel([cs EXCEPT !.Vowel1 = ini.Vowel1]))
    IN  WithInitial(BuildInitial(cs))

\* buildPaiboonFromSyllable converts parsed syllable to Paiboon
buildPaiboonFromSyllable(cs) ==
    LET Assemble(b) ==
            IF b.toneNum > 0
            THEN NFC(PlaceTone(Graphemes(b.base), ToneMarkOf(b.toneNum), FALSE))
            ELSE NFC(b.base)
    IN  Assemble(BuildParts(cs))

(***************************************************************************)
(* Syllable boundaries                                                     *)
(***************************************************************************)
\* step 2 of findSyllableEndImproved: the index after the consonants and
\* their count, from consonantStart
TakeConsonants(runes, consonantStart) ==
    IF ~(consonantStart < Len(runes) /\ isConsonant(runes[consonantStart + 1]))
    THEN [i |-> consonantStart, consonantCount |-> 0]
    ELSE IF ~(consonantStart + 1 < Len(runes) /\ isConsonant(runes[consonantStart + 2]))
    THEN [i |-> consonantStart + 1, consonantCount |-> 1]
    ELSE IF <<runes[consonantStart + 1], runes[consonantStart + 2]>> \notin DOMAIN clusters
            /\ runes[consonantStart + 1] # "HO_HIP"
    THEN [i |-> consonantStart + 1, consonantCount |-> 1]
    ELSE [i |-> consonantStart + 2, consonantCount |-> 2]

RECURSIVE TakeVowels(_, _, _)
\* step 3 of findSyllableEndImproved: the index after vowels and marks, and hasVowel
TakeVowels(runes, i, hasVowel) ==
    IF i >= Len(runes) THEN [i |-> i, hasVowel |-> hasVowel]
    ELSE LET r == runes[i + 1] IN
         IF isVowel(r) THEN TakeVowels(runes, i + 1, TRUE)
         ELSE IF isToneMark(r) \/ r \in {"MAITAIKHU", "THANTHAKHAT", "NIKHAHIT", "MAIYAMOK"}
         THEN TakeVowels(runes, i + 1, hasVowel)
         ELSE [i |-> i, hasVowel |-> hasVowel]

\* findSyllableEndImproved finds syllable boundaries more accurately
findSyllableEndImproved(runes, start) ==
    IF start >= Len(runes) THEN start
    ELSE LET \* step 5: ensure we always advance at least one character
             Advance(i4) ==
                 IF i4 = start /\ i4 < Len(runes)
                    /\ (isToneMark(runes[i4 + 1]) \/ runes[i4 + 1] = "THANTHAKHAT")
                 THEN i4 + 1
                 ELSE i4
             NextIsNewSyllable(hasLeadingVowel, next) ==
                 \/ isLeadingVowel(next)
                 \/ isVowel(next) /\ ~hasLeadingVowel
                 \/ isConsonant(next) /\ hasLeadingVowel
             \* step 4: the final consonant
             Final(hasLeadingVowel, c, v) ==
                 Advance(IF v.i < Len(runes) /\ isConsonant(runes[v.i + 1])
                         THEN IF v.hasVowel
                              THEN IF v.i + 1 < Len(runes)
                                      /\ NextIsNewSyllable(hasLeadingVowel, runes[v.i + 2])
                                   THEN v.i ELSE v.i + 1
                              ELSE IF c.consonantCount = 1 /\ ~hasLeadingVowel THEN v.i + 1
                              ELSE v.i
                         ELSE v.i)
             AfterConsonants(hasLeadingVowel, c) ==
                 Final(hasLeadingVowel, c, TakeVowels(runes, c.i, hasLeadingVowel))
             AfterLeading(hasLeadingVowel) ==
                 AfterConsonants(hasLeadingVowel,
                     TakeConsonants(runes, IF hasLeadingVowel THEN start + 1 ELSE start))
         IN  AfterLeading(isLeadingVowel(runes[start + 1]))

\* findSyllableEndComprehensive finds syllable boundaries with better pattern recognition
findSyllableEndComprehensive(runes, start) ==
    IF start >= Len(runes) THEN start
    ELSE IF start + 3 <= Len(runes) /\ runes[start + 1] = "SARA_E" /\ isConsonant(runes[start + 2])
            /\ start + 4 <= Len(runes) /\ runes[start + 3] = "SARA_II" /\ runes[start + 4] = "YO_YAK"
    THEN IF start + 5 <= Len(runes) /\ isConsonant(runes[start + 5]) THEN start + 5 ELSE start + 4
    ELSE IF start + 3 <= Len(runes) /\ runes[start + 1] = "SARA_E" /\ isConsonant(runes[start + 2])
            /\ start + 4 <= Len(runes) /\ runes[start + 3] = "SARA_UEE" /\ runes[start + 4] = "O_ANG"
    THEN IF start + 5 <= Len(runes) /\ isConsonant(runes[start + 5]) THEN start + 5 ELSE start + 4
    ELSE IF start + 3 <= Len(runes) /\ start + 2 < Len(runes) /\ runes[start + 2] = "RO_RUA"
            /\ runes[start + 3] = "SARA_A"
    THEN IF start + 3 < Len(runes) /\ isConsonant(runes[start + 4]) THEN start + 4 ELSE start + 3
    ELSE IF start + 3 <= Len(runes) /\ start + 2 < Len(runes) /\ runes[start + 2] = "RO_RUA"
            /\ runes[start + 3] = "SARA_AA"
    THEN IF start + 3 < Len(runes) /\ isConsonant(runes[start + 4]) THEN start + 4 ELSE start + 3
    ELSE findSyllableEndImproved(runes, start)

(***************************************************************************)
(* ComprehensiveTransliterate                                              *)
(***************************************************************************)
\* the longest syllable the scanner looks up
MaxSyllableLen == 8

\* the loop over length run upwards: the shortest key at index i
LongestMatchFromShortest(runes, i, length) ==
    LET Shortest(S) == IF S = {} THEN 0 ELSE CHOOSE L \in S : \A M \in S : L <= M
    IN  Shortest({L \in 1..length :
                    /\ ~(i + L < Len(runes) /\ Len(runes) - (i + L) = 1
                         /\ isConsonant(runes[i + L + 1]))
                    /\ \/ SubSeq(runes, i + 1, i + L) \in DOMAIN specialCasesGlobal
                       \/ SubSeq(runes, i + 1, i + L) \in DOMAIN syllableDict})

RECURSIVE LongestMatch(_, _, _)
\* the loop over length at index i: the length of the first substring found
\* in the special cases or the syllable dictionary, 0 when none is
LongestMatch(runes, i, length) ==
    IF length <= 0 THEN 0
    ELSE IF i + length < Len(runes) /\ Len(runes) - (i + length) = 1
            /\ isConsonant(runes[i + length + 1])
    THEN LongestMatch(runes, i, length - 1)
    ELSE IF SubSeq(runes, i + 1, i + length) \in DOMAIN specialCasesGlobal
            \/ SubSeq(runes, i + 1, i + length) \in DOMAIN syllableDict
    THEN length
    ELSE LongestMatch(runes, i, length - 1)

\* what the matcher computed for a matched syllable
MatchDetail(m) ==
    [initials |-> IF m.st.isCluster THEN m.st.initialCluster
                  ELSE IF m.st.initialCons # "" THEN <<m.st.initialCons>> ELSE <<>>,
     initialSound |-> IF m.st.isCluster
                      THEN Lookup(clusters, m.st.initialCluster, <<>>)
                      ELSE Lookup(initialConsonants, m.st.initialCons, <<>>),
     vowelSound |-> m.paiboon,
     finalThai |-> m.st.finalCons,
     finalSound |-> FinalTrans(m.st.finalCons),
     toneMark |-> m.st.toneMark,
     toneClass |-> MatcherToneClass(m.st.initialCons, m.st.initialCluster),
     isLive |-> isLiveSyllable(m.paiboon, m.st.finalCons),
     toneNum |-> MatcherToneNum(m.st.initialCons, m.st.initialCluster, m.st.toneMark,
                                m.paiboon, m.st.finalCons),
     base |-> m.base,
     pattern |-> m.pattern]

\* what the builder computed for a parsed syllable
BuildDetailOf(cs, b) ==
    [initials |-> IF cs.Initial1 = "" THEN <<>>
                  ELSE IF cs.Initial2 = "" THEN <<cs.Initial1>> ELSE <<cs.Initial1, cs.Initial2>>,
     initialSound |-> b.initialSound,
     vowelSound |-> b.vowelSound,
     finalThai |-> cs.Final1,
     finalSound |-> b.finalSound,
     toneMark |-> cs.Tone,
     toneClass |-> b.toneClass,
     isLive |-> b.isLive,
     toneNum |-> b.toneNum,
     base |-> b.base,
     pattern |-> <<>>]

BuildDetail(cs) == BuildDetailOf(cs, BuildParts(cs))

NoDetail ==
    [initials |-> <<>>, initialSound |-> <<>>, vowelSound |-> <<>>, finalThai |-> "",
     finalSound |-> <<>>, toneMark |-> "", toneClass |-> "", isLive |-> TRUE, toneNum |-> 0,
     base |-> <<>>, pattern |-> <<>>]

\* a segment of the scanner: runes[from:to], the path that romanized it, the
\* romanization and what the path computed on the way
Segment(runes, from, to, path, trans, detail) ==
    [from |-> from, to |-> to, path |-> path, trans |-> trans,
     syl |-> SubSeq(runes, from + 1, to), detail |-> detail]

\* one round of the scanner at index i
ScanStep(runes, i) ==
    LET \* the match is in the special cases or in the syllable dictionary
        Found(length, substr) ==
            IF substr \in DOMAIN specialCasesGlobal
            THEN Segment(runes, i, i + length, "special", NFC(specialCasesGlobal[substr]), NoDetail)
            ELSE Segment(runes, i, i + length, "syllable", NFC(syllableDict[substr]), NoDetail)
        \* the comprehensive parser on runes[i:to]
        Built(to, path, cs) ==
            Segment(runes, i, to, path, buildPaiboonFromSyllable(cs), BuildDetail(cs))
        \* no dictionary match: the rules on runes[i:end], or on one rune
        Rules(end, m) ==
            IF end > i /\ m.match /\ m.result # <<>>
            THEN Segment(runes, i, end, "matcher", m.result, MatchDetail(m))
            ELSE Built(IF end > i THEN end ELSE i + 1,
                       IF end > i THEN "builder" ELSE "single",
                       parseThaiSyllable(SubSeq(runes, i + 1, IF end > i THEN end ELSE i + 1)))
        RulesTo(end) == Rules(end, improvedMatch(SubSeq(runes, i + 1, end)))
        Matched(length) ==
            IF length > 0 THEN Found(length, SubSeq(runes, i + 1, i + length))
            ELSE RulesTo(findSyllableEndComprehensive(runes, i))
    IN  Matched(LongestMatch(runes, i,
                    IF Len(runes) - i > MaxSyllableLen THEN MaxSyllableLen ELSE Len(runes) - i))

RECURSIVE Scan(_, _)
\* the scanner loop: the segments from index i to the end of the word
Scan(runes, i) ==
    IF i >= Len(runes) THEN <<>>
    ELSE LET Rest(s) == <<s>> \o Scan(runes, s.to) IN Rest(ScanStep(runes, i))

RECURSIVE Results(_)
\* the results slice the segments leave: the rule paths append only a
\* non-empty romanization, the dictionary paths whatever the entry holds
Results(segments) ==
    IF segments = <<>> THEN <<>>
    ELSE LET s == Head(segments) IN
         IF s.trans = <<>> /\ s.path \in {"matcher", "builder", "single"}
         THEN Results(Tail(segments))
         ELSE <<s.trans>> \o Results(Tail(segments))

\* the path the whole word takes and the segments of the scanner
ComprehensiveTrace(word) ==
    IF word \in DOMAIN specialCasesGlobal THEN [path |-> "special", segments |-> <<>>]
    ELSE IF word \in DOMAIN syllableDict THEN [path |-> "syllable", segments |-> <<>>]
    ELSE [path |-> "scan", segments |-> Scan(word, 0)]

\* what ComprehensiveTransliterate returns on the trace t of the word
TraceResult(word, t) ==
    IF t.path = "special" THEN NFC(specialCasesGlobal[word])
    ELSE IF t.path = "syllable" THEN NFC(syllableDict[word])
    ELSE IF Len(Results(t.segments)) = 0 THEN <<>>
    ELSE NFC(Join(Results(t.segments)))

\* ComprehensiveTransliterate performs advanced Thai-to-Paiboon transliteration
ComprehensiveTransliterate(word) == TraceResult(word, ComprehensiveTrace(word))

(***************************************************************************)
(* Rule-based transliteration of TransliterateWord                         *)
(***************************************************************************)
RECURSIVE ExtractFromSkipping(_, _)
\* the loop of ExtractSyllables without its single-character branch: a code
\* point at which no syllable ends is passed over
ExtractFromSkipping(runes, i) ==
    IF i >= Len(runes) THEN <<>>
    ELSE LET Cut(sylEnd) ==
                 IF sylEnd > i
                 THEN <<SubSeq(runes, i + 1, sylEnd)>> \o ExtractFromSkipping(runes, sylEnd)
                 ELSE ExtractFromSkipping(runes, i + 1)
         IN  Cut(findSyllableEndImproved(runes, i))

RECURSIVE ExtractFrom(_, _)
\* the loop of ExtractSyllables from index i
ExtractFrom(runes, i) ==
    IF i >= Len(runes) THEN <<>>
    ELSE LET Cut(sylEnd) ==
                 IF sylEnd > i THEN <<SubSeq(runes, i + 1, sylEnd)>> \o ExtractFrom(runes, sylEnd)
                 ELSE <<<<runes[i + 1]>>>> \o ExtractFrom(runes, i + 1)
         IN  Cut(findSyllableEndImproved(runes, i))

\* ExtractSyllables breaks a Thai word into individual syllables
ExtractSyllables(word) == ExtractFrom(word, 0)

\* the initial of parseSyllableComponents: comp.Initial, comp.InitialThai,
\* initialCons, vowelMarks, finalCons and the index i after it
ParseComponentInitial(runes, i0) ==
    LET Ordinary(initialCons, hoLo, i1, marks0, oRo, initial, second) ==
            [Initial |-> IF oRo THEN <<>> ELSE initial,
             InitialThai |-> IF hoLo THEN "HO_HIP"
                             ELSE IF initialCons # <<>> THEN initialCons[1] ELSE "",
             vowelMarks |-> IF oRo THEN <<"O_ANG", "RO_RUA">>
                            ELSE IF second = "WO_WAEN" /\ marks0 = <<>> THEN <<"WO_WAEN">> \o marks0
                            ELSE marks0,
             finalCons |-> IF second # "" /\ ~(second = "WO_WAEN" /\ marks0 = <<>>)
                           THEN second ELSE "",
             i |-> IF oRo THEN i1 + 1 ELSE i1]
        \* the romanized initial and the second consonant left over as final
        Sounds(initialCons, hoLo, i1, marks0, oRo) ==
            Ordinary(initialCons, hoLo, i1, marks0, oRo,
                     IF hoLo THEN <<"l">>
                     ELSE Lookup(clusters, initialCons,
                                 IF initialCons # <<>>
                                 THEN Lookup(initialConsonants, initialCons[1], <<>>)
                                 ELSE <<>>),
                     IF ~hoLo /\ initialCons \notin DOMAIN clusters /\ Len(initialCons) > 1
                     THEN initialCons[2] ELSE "")
        Placed(sWa, initialCons, i1) ==
            Sounds(initialCons, initialCons = <<"HO_HIP", "LO_LING">>, i1, IF sWa THEN <<"WO_WAEN", "MAI_HAN_AKAT">> ELSE <<>>,
                   initialCons = <<"O_ANG">> /\ i1 < Len(runes) /\ runes[i1 + 1] = "RO_RUA")
        Taken(sWa, initialCons) ==
            Placed(sWa, initialCons, IF sWa THEN i0 + 3 ELSE i0 + Len(initialCons))
        Second(c1, sWa, c2) ==
            Taken(sWa, IF c1 = "" THEN <<>> ELSE IF c2 = "" THEN <<c1>> ELSE <<c1, c2>>)
        First(c1, sWa) ==
            Second(c1, sWa,
                   IF c1 # "" /\ ~sWa /\ i0 + 1 < Len(runes) /\ isConsonant(runes[i0 + 2])
                   THEN runes[i0 + 2] ELSE "")
        Start(c1) ==
            First(c1, /\ c1 = "SO_SUA" /\ i0 + 1 < Len(runes) /\ runes[i0 + 2] = "WO_WAEN"
                      /\ i0 + 2 < Len(runes) /\ runes[i0 + 3] = "MAI_HAN_AKAT")
    IN  IF /\ i0 < Len(runes) - 1 /\ runes[i0 + 1] = "O_ANG" /\ runes[i0 + 2] = "YO_YAK"
           /\ i0 + 2 < Len(runes) /\ isVowel(runes[i0 + 3])
        THEN [Initial |-> <<"y">>, InitialThai |-> "O_ANG", vowelMarks |-> <<>>, finalCons |-> "",
              i |-> i0 + 2]
        ELSE Start(IF i0 < Len(runes) /\ isConsonant(runes[i0 + 1]) THEN runes[i0 + 1] ELSE "")

RECURSIVE ParseComponentRest(_, _, _)
\* the loop over the remaining characters; st holds vowelMarks, ToneMark, finalCons
ParseComponentRest(runes, i, st) ==
    IF i >= Len(runes) THEN st
    ELSE LET r == runes[i + 1] IN
         IF isVowel(r) \/ r = "MAITAIKHU"
         THEN ParseComponentRest(runes, i + 1, [st EXCEPT !.vowelMarks = Append(@, r)])
         ELSE IF isToneMark(r) THEN ParseComponentRest(runes, i + 1, [st EXCEPT !.ToneMark = r])
         ELSE IF r = "THANTHAKHAT" THEN ParseComponentRest(runes, i + 1, st)
         ELSE IF isConsonant(r) THEN ParseComponentRest(runes, i + 1, [st EXCEPT !.finalCons = r])
         ELSE ParseComponentRest(runes, i + 1, st)

\* determineVowelSound determines the vowel sound from Thai components
determineVowelSound(leading, marks, final) ==
    IF leading = "SARA_E" /\ (marks = <<"SARA_II", "YO_YAK">> \/ marks = <<"SARA_II", "YO_YAK", "WO_WAEN">>) THEN <<"i", "i", "a">>
    ELSE IF leading = "SARA_E" /\ marks = <<"SARA_UEE", "O_ANG">> THEN <<"u_bar", "u_bar", "a">>
    ELSE IF leading = "SARA_E" /\ marks = <<"SARA_AA">> THEN <<"a", "o">>
    ELSE IF leading = "SARA_E" /\ marks = <<"O_ANG">> THEN <<"schwa", "schwa">>
    ELSE IF leading = "SARA_E" /\ marks = <<"SARA_I">> THEN <<"schwa", "schwa">>
    ELSE IF leading = "SARA_E" /\ marks = <<"MAITAIKHU">> THEN <<"e">>
    ELSE IF leading = "SARA_E" /\ marks = <<>> /\ final = "YO_YAK" THEN <<"schwa", "schwa", "i">>
    ELSE IF leading = "SARA_E" /\ marks = <<>> /\ final # "" THEN <<"e", "e">>
    ELSE IF leading = "SARA_E" /\ marks = <<>> THEN <<"e", "e">>
    ELSE IF leading = "SARA_E" /\ marks = <<"SARA_A">> THEN <<"e">>
    ELSE IF leading = "SARA_E" /\ marks = <<"SARA_AA", "SARA_A">> THEN <<"open_o">>
    ELSE IF leading = "SARA_AE" /\ marks = <<"MAITAIKHU">> THEN <<"open_e">>
    ELSE IF leading = "SARA_AE" /\ marks = <<"SARA_A">> THEN <<"open_e">>
    ELSE IF leading = "SARA_AE" THEN <<"open_e", "open_e">>
    ELSE IF leading = "SARA_O" /\ marks = <<"SARA_A">> THEN <<"o">>
    ELSE IF leading = "SARA_O" THEN <<"o", "o">>
    ELSE IF leading = "SARA_AI_MAIMALAI" \/ leading = "SARA_AI_MAIMUAN" THEN <<"a", "i">>
    \* Special patterns with WO WAEN
    ELSE IF marks = <<"MAI_THO", "WO_WAEN">> \/ marks = <<"WO_WAEN">> THEN (IF final = "YO_YAK" THEN <<"u", "a", "i">> ELSE <<"u", "a">>)
    \* Diphthongs and complex vowels
    ELSE IF marks = <<"SARA_II", "YO_YAK", "WO_WAEN">> THEN <<"i", "a", "o">>
    ELSE IF marks = <<"SARA_UEE", "O_ANG">> THEN (IF final = "NO_NU" THEN <<"u_bar", "u_bar", "a">> ELSE <<"u_bar", "u_bar">>)
    ELSE IF marks = <<"WO_WAEN", "MAI_HAN_AKAT">> \/ marks = <<"MAI_HAN_AKAT", "WO_WAEN">> THEN <<"u", "a">>
    ELSE IF marks = <<"SARA_I", "WO_WAEN">> \/ marks = <<"SARA_I", "MAI_THO", "WO_WAEN">> THEN <<"i">>
    ELSE IF marks = <<"O_ANG", "RO_RUA">> THEN <<"open_o", "open_o">>
    ELSE IF marks = <<"O_ANG">> /\ leading = "" THEN <<"open_o", "open_o">>
    \* Simple vowel marks
    ELSE IF marks = <<"SARA_A">> THEN <<"a">>
    ELSE IF marks = <<"MAI_HAN_AKAT">> THEN <<"a">>
    ELSE IF marks = <<"SARA_AA">> THEN <<"a", "a">>
    ELSE IF marks = <<"SARA_I">> \/ marks = <<"SARA_I", "MAI_THO">> THEN <<"i">>
    ELSE IF marks = <<"SARA_II">> \/ marks = <<"SARA_II", "MAI_THO">> THEN <<"i", "i">>
    ELSE IF marks = <<"SARA_UE">> THEN <<"u_bar">>
    ELSE IF marks = <<"SARA_UEE">> \/ marks = <<"SARA_UEE", "MAI_THO">> THEN <<"u_bar", "u_bar">>
    ELSE IF marks = <<"SARA_U">> THEN <<"u">>
    ELSE IF marks = <<"SARA_UU">> \/ marks = <<"SARA_UU", "MAI_THO">> THEN <<"u", "u">>
    ELSE IF marks = <<"SARA_AM">> THEN <<"a", "m">>
    ELSE IF marks = <<"MAITAIKHU", "O_ANG">> THEN <<"open_o">>
    \* Inherent vowel (no explicit vowel mark)
    ELSE IF leading = "" /\ marks = <<>> THEN (IF final = "" THEN <<"open_o", "open_o">> ELSE <<"o">>)
    ELSE <<>>

\* parseSyllableComponents breaks down a Thai syllable
parseSyllableComponents(syllable) ==
    LET Components(leadingVowel, ini, st) ==
            [Initial |-> ini.Initial,
             Vowel |-> determineVowelSound(leadingVowel, st.vowelMarks, st.finalCons),
             Final |-> FinalTrans(st.finalCons),
             ToneMark |-> st.ToneMark, InitialThai |-> ini.InitialThai]
        Rest(leadingVowel, ini) ==
            Components(leadingVowel, ini,
                ParseComponentRest(syllable, ini.i,
                    [vowelMarks |-> ini.vowelMarks, ToneMark |-> "",
                     finalCons |-> ini.finalCons]))
        Initial(leadingVowel) ==
            Rest(leadingVowel,
                 ParseComponentInitial(syllable, IF leadingVowel # "" THEN 1 ELSE 0))
    IN  Initial(IF Len(syllable) > 0 /\ isLeadingVowel(syllable[1]) THEN syllable[1] ELSE "")

\* whether applyTone takes the syllable for live
LegacyIsLive(comp) ==
    \/ comp.Final \in {<<>>, <<"n">>, <<"m">>, <<"n", "g">>, <<"i">>, <<"o">>}
    \/ \E lv \in {<<"a", "a">>, <<"i", "i">>, <<"u_bar", "u_bar">>, <<"u", "u">>, <<"e", "e">>, <<"open_e", "open_e">>, <<"o", "o">>, <<"open_o", "open_o">>, <<"schwa", "schwa">>,
                  <<"i", "i", "a">>, <<"u_bar", "u_bar", "a">>, <<"u", "u", "a">>} : Contains(comp.Vowel, lv)
    \/ Contains(comp.Vowel, <<"a", "i">>) \/ Contains(comp.Vowel, <<"a", "o">>)

\* applyTone applies tone marks to the transliteration
applyTone(text, comp) ==
    LET Place(toneNum) ==
            IF toneNum = 0 THEN text
            ELSE IF \E k \in 1..Len(text) : isRomanVowel(text[k])
            THEN PlaceTone(Graphemes(text), ToneMarkOf(toneNum), FALSE)
            ELSE text
        ToneNum(toneClass, isLive) ==
            IF comp.ToneMark = ""
            THEN CASE toneClass = "low" -> IF isLive THEN 0 ELSE 2
                   [] toneClass = "mid" -> IF isLive THEN 0 ELSE 1
                   [] toneClass = "high" -> IF isLive THEN 4 ELSE 1
            ELSE CASE comp.ToneMark = "MAI_EK" -> IF toneClass = "low" THEN 3 ELSE 1
                   [] comp.ToneMark = "MAI_THO" -> IF toneClass = "low" THEN 2 ELSE 3
                   [] comp.ToneMark = "MAI_TRI" -> IF toneClass = "mid" THEN 2 ELSE 0
                   [] comp.ToneMark = "MAI_CHATTAWA" -> IF toneClass = "mid" THEN 4 ELSE 0
                   [] OTHER -> 0
    IN  Place(ToneNum(ClassOfKey(comp.InitialThai), LegacyIsLive(comp)))

\* transliterateSyllable converts a Thai syllable to Paiboon
transliterateSyllable(syllable) ==
    LET Rules(components) ==
            applyTone(components.Initial \o components.Vowel \o components.Final, components)
    IN  Lookup(specialCases, syllable,
               Rules(parseSyllableComponents(RemoveSilentConsonants(syllable))))

RECURSIVE TransliterateSyllables(_)
\* the loop of TransliterateWord over the syllables: the results slice
TransliterateSyllables(syllables) ==
    IF syllables = <<>> THEN <<>>
    ELSE LET Emit(trans) ==
                 IF trans # <<>> THEN <<trans>> \o TransliterateSyllables(Tail(syllables))
                 ELSE TransliterateSyllables(Tail(syllables))
             One(syl) ==
                 IF syl \in DOMAIN syllableDict
                 THEN <<syllableDict[syl]>> \o TransliterateSyllables(Tail(syllables))
                 ELSE Emit(transliterateSyllable(syl))
         IN  One(Head(syllables))

\* TransliterateWord with the special cases consulted before the dictionary
TransliterateWordSpecialFirst(word) ==
    IF word \in DOMAIN specialCasesGlobal THEN specialCasesGlobal[word]
    ELSE IF word \in DOMAIN dictionary THEN dictionary[word]
    ELSE Join(TransliterateSyllables(ExtractSyllables(word)))

\* TransliterateWord transliterates a single Thai word to Paiboon romanization
TransliterateWord(word) ==
    IF word \in DOMAIN dictionary THEN dictionary[word]
    ELSE Join(TransliterateSyllables(ExtractSyllables(word)))

RECURSIVE TransliterateEach(_)
\* the loop of TransliterateWordRulesOnly over the tokenizer's syllables
TransliterateEach(syllables) ==
    IF syllables = <<>> THEN <<>>
    ELSE LET Emit(trans) ==
                 IF trans # <<>> THEN <<trans>> \o TransliterateEach(Tail(syllables))
                 ELSE TransliterateEach(Tail(syllables))
         IN  Emit(ComprehensiveTransliterate(Head(syllables)))

\* TransliterateWordRulesOnly; tokenized is what SyllableTokenize answered:
\* err for an error, otherwise Syllables; it is asked only when
\* globalManager is set
TransliterateWordRulesOnly(word, tokenized) ==
    LET \* the tokenizer's syllables, or the whole word when there are no results
        Tokenized(results) ==
            IF globalManager # "nil" /\ ~tokenized.err /\ Len(tokenized.Syllables) > 0
               /\ Len(results) > 0
            THEN JoinWith(results, <<"-">>)
            ELSE ComprehensiveTransliterate(word)
    IN  IF word \in DOMAIN dictionary THEN dictionary[word]
        ELSE Tokenized(TransliterateEach(tokenized.Syllables))

(***************************************************************************)
(* Vocabulary loading                                                      *)
(***************************************************************************)
\* the code points of the Thai letters and marks, the space, the hyphen and "x"
CodePoint ==
    ("KO_KAI" :> 3585) @@ ("KHO_KHAI" :> 3586) @@ ("KHO_KHUAT" :> 3587) @@ ("KHO_KHWAI" :> 3588) @@
    ("KHO_KHON" :> 3589) @@ ("KHO_RAKHANG" :> 3590) @@ ("NGO_NGU" :> 3591) @@ ("CHO_CHAN" :> 3592) @@
    ("CHO_CHING" :> 3593) @@ ("CHO_CHANG" :> 3594) @@ ("SO_SO" :> 3595) @@ ("CHO_CHOE" :> 3596) @@
    ("YO_YING" :> 3597) @@ ("DO_CHADA" :> 3598) @@ ("TO_PATAK" :> 3599) @@ ("THO_THAN" :> 3600) @@
    ("THO_NANGMONTHO" :> 3601) @@ ("THO_PHUTHAO" :> 3602) @@ ("NO_NEN" :> 3603) @@ ("DO_DEK" :> 3604) @@
    ("TO_TAO" :> 3605) @@ ("THO_THUNG" :> 3606) @@ ("THO_THAHAN" :> 3607) @@ ("THO_THONG" :> 3608) @@
    ("NO_NU" :> 3609) @@ ("BO_BAIMAI" :> 3610) @@ ("PO_PLA" :> 3611) @@ ("PHO_PHUNG" :> 3612) @@
    ("FO_FA" :> 3613) @@ ("PHO_PHAN" :> 3614) @@ ("FO_FAN" :> 3615) @@ ("PHO_SAMPHAO" :> 3616) @@
    ("MO_MA" :> 3617) @@ ("YO_YAK" :> 3618) @@ ("RO_RUA" :> 3619) @@ ("RU" :> 3620) @@
    ("LO_LING" :> 3621) @@ ("LU" :> 3622) @@ ("WO_WAEN" :> 3623) @@ ("SO_SALA" :> 3624) @@
    ("SO_RUSI" :> 3625) @@ ("SO_SUA" :> 3626) @@ ("HO_HIP" :> 3627) @@ ("LO_CHULA" :> 3628) @@
    ("O_ANG" :> 3629) @@ ("HO_NOKHUK" :> 3630) @@ ("PAIYANNOI" :> 3631) @@ ("SARA_A" :> 3632) @@
    ("MAI_HAN_AKAT" :> 3633) @@ ("SARA_AA" :> 3634) @@ ("SARA_AM" :> 3635) @@ ("SARA_I" :> 3636) @@
    ("SARA_II" :> 3637) @@ ("SARA_UE" :> 3638) @@ ("SARA_UEE" :> 3639) @@ ("SARA_U" :> 3640) @@
    ("SARA_UU" :> 3641) @@ ("PHINTHU" :> 3642) @@ ("SARA_E" :> 3648) @@ ("SARA_AE" :> 3649) @@
    ("SARA_O" :> 3650) @@ ("SARA_AI_MAIMUAN" :> 3651) @@ ("SARA_AI_MAIMALAI" :> 3652) @@ ("LAKKHANGYAO" :> 3653) @@
    ("MAIYAMOK" :> 3654) @@ ("MAITAIKHU" :> 3655) @@ ("MAI_EK" :> 3656) @@ ("MAI_THO" :> 3657) @@
    ("MAI_TRI" :> 3658) @@ ("MAI_CHATTAWA" :> 3659) @@ ("THANTHAKHAT" :> 3660) @@ ("NIKHAHIT" :> 3661) @@
    ("YAMAKKAN" :> 3662) @@ ("FONGMAN" :> 3663) @@ ("ANGKHANKHU" :> 3674) @@ ("KHOMUT" :> 3675) @@
    (" " :> 32) @@ ("-" :> 45) @@ ("x" :> 120)

RECURSIVE StringLess(_, _)
\* a < b on Go strings: UTF-8 byte order is code point order
StringLess(a, b) ==
    IF b = <<>> THEN FALSE
    ELSE IF a = <<>> THEN TRUE
    ELSE IF Head(a) # Head(b) THEN CodePoint[Head(a)] < CodePoint[Head(b)]
    ELSE StringLess(Tail(a), Tail(b))

RECURSIVE SortStrings(_)
\* sort.Strings on a set of distinct strings
SortStrings(S) ==
    IF S = {} THEN <<>>
    ELSE LET least == CHOOSE a \in S : \A b \in S \ {a} : StringLess(a, b)
         IN  <<least>> \o SortStrings(S \ {least})

RECURSIVE Split(_, _)
\* strings.Split(s, sep) for a separator of one code point
Split(s, sep) ==
    IF \E k \in 1..Len(s) : s[k] = sep
    THEN LET k == CHOOSE j \in 1..Len(s) : s[j] = sep /\ \A m \in 1..(j - 1) : s[m] # sep
         IN  <<SubSeq(s, 1, k - 1)>> \o Split(SubSeq(s, k + 1, Len(s)), sep)
    ELSE <<s>>

\* m[k] = v of a Go map
Put(m, k, v) == [x \in DOMAIN m \cup {k} |-> IF x = k THEN v ELSE m[x]]

\* the empty Go map
EmptyMap == [x \in {} |-> <<>>]

RECURSIVE LoadRows(_, _)
\* the loop of init over the rows of the vocabulary files: st holds
\* dictionary and syllableDict
LoadRows(rows, st) ==
    IF rows = <<>> THEN st
    ELSE LET th == Head(rows).th
             translit == Head(rows).translit
             short == ~Contains(th, <<" ">>) /\
                      ((Len(th) <= 5 /\ ~Contains(translit, <<"-">>)) \/ Len(th) <= 3)
         IN  LoadRows(Tail(rows),
                      [dictionary |-> Put(st.dictionary, th, translit),
                       syllableDict |-> IF short THEN Put(st.syllableDict, th, translit)
                                        ELSE st.syllableDict])

RECURSIVE AddSyllables(_, _, _, _)
\* the loop over the syllables of one multi-syllable entry
AddSyllables(thaiSyllables, romanSyllables, k, sd) ==
    IF k > Len(thaiSyllables) THEN sd
    ELSE IF thaiSyllables[k] \notin DOMAIN sd
            /\ Len(thaiSyllables[k]) >= 2 /\ Len(thaiSyllables[k]) <= 6
    THEN AddSyllables(thaiSyllables, romanSyllables, k + 1,
                      Put(sd, thaiSyllables[k], romanSyllables[k]))
    ELSE AddSyllables(thaiSyllables, romanSyllables, k + 1, sd)

RECURSIVE ExtractEntries(_, _, _)
\* the loop of extractSyllablesFromDictionary over the sorted keys
ExtractEntries(sortedKeys, dict, sd) ==
    IF sortedKeys = <<>> THEN sd
    ELSE LET th == Head(sortedKeys)
             translit == dict[th]
             thaiSyllables == ExtractSyllables(th)
             romanSyllables == Split(translit, "-")
         IN  IF Contains(translit, <<"-">>) /\ Len(thaiSyllables) = Len(romanSyllables)
             THEN ExtractEntries(Tail(sortedKeys), dict,
                                 AddSyllables(thaiSyllables, romanSyllables, 1, sd))
             ELSE ExtractEntries(Tail(sortedKeys), dict, sd)

\* the last loop of extractSyllablesFromDictionary: the special cases of at
\* most five code points without a hyphen, where the key is still free
AddSpecialCases(sd) ==
    [th \in DOMAIN sd \cup {k \in DOMAIN specialCasesGlobal :
                              ~Contains(specialCasesGlobal[k], <<"-">>) /\ Len(k) <= 5}
        |-> IF th \in DOMAIN sd THEN sd[th] ELSE specialCasesGlobal[th]]

\* extractSyllablesFromDictionary: the syllable dictionary it leaves
extractSyllablesFromDictionary(dict, sd) ==
    AddSpecialCases(ExtractEntries(SortStrings(DOMAIN dict), dict, sd))

\* init: dictionary and syllableDict after the vocabulary rows are loaded
LoadVocabulary(rows) ==
    LET Extracted(st) ==
            [dictionary |-> st.dictionary,
             syllableDict |-> extractSyllablesFromDictionary(st.dictionary, st.syllableDict)]
    IN  Extracted(LoadRows(rows, [dictionary |-> EmptyMap, syllableDict |-> EmptyMap]))
(***************************************************************************)
(* init, line by line                                                      *)
(***************************************************************************)
\* \p{Thai}: the code points of the Thai script
isThaiRune(r) == r \in DOMAIN CodePoint /\ CodePoint[r] >= 3585

\* re.FindStringSubmatch(str) for (.*),(.*\p{Thai}.*): ok is whether the
\* line matches, raw2 the second group.  The first group is greedy, so it
\* ends at the last comma that has a Thai code point after it
FindStringSubmatch(str) ==
    LET Cut(commas) ==
            IF commas = {} THEN [ok |-> FALSE, raw2 |-> <<>>]
            ELSE [ok |-> TRUE,
                  raw2 |-> Tail1(str, (CHOOSE k \in commas : \A j \in commas : j <= k) + 1)]
    IN  Cut({k \in 1..Len(str) : str[k] = "," /\ \E j \in (k + 1)..Len(str) : isThaiRune(str[j])})

RECURSIVE UnescapeString(_)
\* html.UnescapeString: a string without "&" is returned as it is; of the
\* entities the ampersand itself is decoded
UnescapeString(s) ==
    IF \A k \in 1..Len(s) : s[k] # "&" THEN s
    ELSE IF Len(s) >= 5 /\ SubSeq(s, 1, 5) = <<"&", "a", "m", "p", ";">>
    THEN <<"&">> \o UnescapeString(Tail1(s, 6))
    ELSE <<Head(s)>> \o UnescapeString(Tail(s))

\* the body of the loop of init for one line; st holds dictionary and
\* syllableDict, panic is the run-time panic of the slice expression [:2]
\* on a slice of length and capacity 1
ReadLine(str, st) ==
    LET Row(fields) ==
            IF Len(fields) < 2
            THEN [panic |-> TRUE, dictionary |-> st.dictionary, syllableDict |-> st.syllableDict]
            ELSE [panic |-> FALSE] @@
                 LoadRows(<<[th |-> UnescapeString(fields[1]),
                             translit |-> UnescapeString(fields[2])]>>, st)
        Matched(raw) ==
            IF ~raw.ok
            THEN [panic |-> FALSE, dictionary |-> st.dictionary, syllableDict |-> st.syllableDict]
            ELSE Row(Split(raw.raw2, ","))
    IN  Matched(FindStringSubmatch(str))

\* sort.Strings(keys) on the keys of a map, collected in the order of the
\* iteration
SortKeysUnsorted(keys) == keys

SortKeys(keys) == SortStrings({keys[k] : k \in 1..Len(keys)})

\* the orders in which a range loop can visit the keys of a map
KeyOrders(m) ==
    {o \in [1..Cardinality(DOMAIN m) -> DOMAIN m] : \A j, k \in DOMAIN o : j # k => o[j] # o[k]}

\* extractSyllablesFromDictionary when the range loop over dictionary
\* visited the keys in the order keys
Harvested(keys, dict, sd) == AddSpecialCases(ExtractEntries(SortKeys(keys), dict, sd))
(***************************************************************************)
(* Entry points that ask the external tokenizer                            *)
(***************************************************************************)
RECURSIVE MatchSyllables(_, _, _, _)
\* the loop of TransliterateWordWithSyllables that finds the syllables of
\* the word among allSyllables: wordSyllables and currentPos when it ends
MatchSyllables(wordRunes, allSyllables, currentPos, wordSyllables) ==
    IF allSyllables = <<>> THEN [wordSyllables |-> wordSyllables, currentPos |-> currentPos]
    ELSE LET After(pos, found) ==
                 IF pos >= Len(wordRunes) THEN [wordSyllables |-> found, currentPos |-> pos]
                 ELSE MatchSyllables(wordRunes, Tail(allSyllables), pos, found)
             Try(syl) ==
                 IF currentPos < Len(wordRunes)
                    /\ \A k \in 1..Len(syl) :
                          currentPos + k <= Len(wordRunes) /\ wordRunes[currentPos + k] = syl[k]
                 THEN After(currentPos + Len(syl), Append(wordSyllables, syl))
                 ELSE After(currentPos, wordSyllables)
         IN  Try(Head(allSyllables))

\* the syllables the loop found, kept whether they cover the word or not
MatchedSyllablesOnly(word, allSyllables) ==
    MatchSyllables(word, allSyllables, 0, <<>>).wordSyllables

\* wordSyllables of TransliterateWordWithSyllables when the syllables are
\* transliterated
SelectWordSyllables(word, allSyllables) ==
    LET \* If pythainlp gave us wrong syllables, try our own extraction
        Chosen(found) ==
            IF Len(found.wordSyllables) = 0 \/ found.currentPos < Len(word)
            THEN ExtractSyllables(word)
            ELSE found.wordSyllables
    IN  Chosen(MatchSyllables(word, allSyllables, 0, <<>>))

\* TransliterateWordWithSyllables handles a word with known syllables from pythainlp
TransliterateWordWithSyllables(word, allSyllables) ==
    IF word \in DOMAIN dictionary THEN dictionary[word]
    ELSE Join(TransliterateSyllables(SelectWordSyllables(word, allSyllables)))

RECURSIVE RomanizeTokens(_, _)
\* the loop of ThaiToRoman over result.RawTokens: the results slice
RomanizeTokens(rawTokens, allSyllables) ==
    IF rawTokens = <<>> THEN <<>>
    ELSE LET Emit(wordResult) ==
                 IF wordResult # <<>>
                 THEN <<wordResult>> \o RomanizeTokens(Tail(rawTokens), allSyllables)
                 ELSE RomanizeTokens(Tail(rawTokens), allSyllables)
             One(word) ==
                 \* Skip empty tokens and spaces
                 IF word = <<>> \/ word = <<" ">> THEN RomanizeTokens(Tail(rawTokens), allSyllables)
                 ELSE IF word \in DOMAIN dictionary
                 THEN <<dictionary[word]>> \o RomanizeTokens(Tail(rawTokens), allSyllables)
                 ELSE Emit(TransliterateWordWithSyllables(word, allSyllables))
         IN  One(Head(rawTokens))

\* Manager.ThaiToRoman; analysis is what AnalyzeWithOptions answered: err for
\* an error, otherwise RawTokens and Syllables.  The result is the pair
\* (string, error)
ThaiToRoman(text, analysis) ==
    LET Joined(results) ==
            IF Len(results) > 1
            THEN IF Contains(text, <<" ">>) THEN JoinWith(results, <<" ">>)
                 ELSE JoinWith(results, <<"-">>)
            ELSE Join(results)
    IN  IF text \in DOMAIN dictionary THEN [value |-> dictionary[text], err |-> FALSE]
        ELSE IF analysis.err THEN [value |-> <<>>, err |-> TRUE]
        ELSE [value |-> Joined(RomanizeTokens(analysis.RawTokens, analysis.Syllables)),
              err |-> FALSE]

RECURSIVE TransliterateTokenized(_, _)
\* the loop of transliterateWithPythainlp over the syllables: the results
\* slice; lastTrans is the last transliteration, kept for the repetition mark
TransliterateTokenized(syllables, lastTrans) ==
    IF syllables = <<>> THEN <<>>
    ELSE LET Emit(trans) ==
                 IF trans # <<>>
                 THEN <<trans>> \o TransliterateTokenized(Tail(syllables), trans)
                 ELSE TransliterateTokenized(Tail(syllables), lastTrans)
             Clean(cleanSyllable) ==
                 IF cleanSyllable = <<>> THEN TransliterateTokenized(Tail(syllables), lastTrans)
                 ELSE IF cleanSyllable \in DOMAIN syllableDict
                 THEN Emit(syllableDict[cleanSyllable])
                 ELSE IF cleanSyllable \in DOMAIN specialCasesGlobal
                 THEN Emit(specialCasesGlobal[cleanSyllable])
                 ELSE Emit(ComprehensiveTransliterate(cleanSyllable))
         IN  IF Head(syllables) = <<"MAIYAMOK">>
             THEN IF lastTrans # <<>>
                  THEN <<lastTrans>> \o TransliterateTokenized(Tail(syllables), lastTrans)
                  ELSE TransliterateTokenized(Tail(syllables), lastTrans)
             ELSE Clean(RemoveSilentConsonants(Head(syllables)))

\* whether transliterateWithPythainlp takes the answer of SyllableTokenize
\* for a failure
TokenizeFailed(tokenized) == tokenized.err \/ Len(tokenized.Syllables) = 0

\* transliterateWithPythainlp; tokenized is what SyllableTokenize answered,
\* asked of globalManager or of the default manager of the package
transliterateWithPythainlp(word, tokenized) ==
    IF TokenizeFailed(tokenized) THEN ComprehensiveTransliterate(word)
    ELSE JoinWith(TransliterateTokenized(tokenized.Syllables, <<>>), <<"-">>)

(***************************************************************************)
(* Bounds of the model                                                     *)
(***************************************************************************)
MaxStripLen == 4

\* code points the stripper distinguishes: a consonant, a vowel, the
\* thanthakhat, and a code point that is none of these
StripAlphabet == {"KO_KAI", "SARA_U", "THANTHAKHAT", "x"}

MaxWordLen == 3

\* the code points of the scanner's words: a mid, a high and a low consonant,
\* HO HIP, RO RUA, a sonorant, short, long and leading vowels, a tone mark,
\* the thanthakhat and a code point outside the Thai block
WordAlphabet ==
    {"KO_KAI", "KHO_KHAI", "KHO_KHWAI", "HO_HIP", "RO_RUA", "MO_MA", "SARA_A", "SARA_AA", "SARA_E", "SARA_U", "MAI_EK", "THANTHAKHAT", "x"}

\* every consonant as the initial of an open and of a closed syllable, and
\* after HO HIP
ConsonantWords ==
    {<<c, "SARA_AA">> : c \in Consonants} \cup {<<c, "KO_KAI">> : c \in Consonants}
        \cup {<<"HO_HIP", c, "SARA_AA">> : c \in Consonants}

\* longer words: a cluster with a final, a leading vowel with a tone mark
\* and a stop final, two syllables, and a special case that extends a
\* shorter one, before a foreign code point and before a consonant
LongWords ==
    {<<"KHO_KHWAI", "RO_RUA", "MAI_HAN_AKAT", "BO_BAIMAI">>, <<"HO_HIP", "MO_MA", "SARA_AA", "KO_KAI">>, <<"SARA_O", "NO_NU", "MAI_THO", "TO_TAO">>, <<"MO_MA", "SARA_AA", "MO_MA", "SARA_AA">>, <<"KO_KAI", "RO_RUA", "MO_MA", "SARA_AA">>,
     <<"WO_WAEN", "SARA_I", "THO_THAHAN", "YO_YAK", "SARA_AA">> \o <<"x">>, <<"WO_WAEN", "SARA_I", "THO_THAHAN", "YO_YAK", "SARA_AA", "KO_KAI">>}

Words == SeqsUpTo(WordAlphabet, MaxWordLen) \cup ConsonantWords \cup LongWords

MaxApiWordLen == 3

\* the code points of the words given to the three entry points
ApiAlphabet == {"KHO_KHAI", "MO_MA", "SARA_AA", "SARA_U", "THANTHAKHAT"}

ApiWords == SeqsUpTo(ApiAlphabet, MaxApiWordLen) \cup {<<"MO_MA", "SARA_U", "MO_MA", "SARA_AA">>, <<"KHO_KHAI", "SARA_AA", "MO_MA", "SARA_AA">>}

MaxVocabRows == 1

\* rows of the vocabulary files: a two-syllable word, and a word that is a
\* special case too
VocabRows ==
    {[th |-> <<"MO_MA", "SARA_U", "MO_MA", "SARA_AA">>, translit |-> <<"m", "u_acute", "-", "m", "a", "a">>], [th |-> <<"KHO_KHAI", "SARA_AA">>, translit |-> <<"k", "a", "a">>]}

\* the vocabulary files: rows in the order of the file, no row twice
Vocabularies ==
    {v \in SeqsUpTo(VocabRows, MaxVocabRows) : \A j, k \in 1..Len(v) : j # k => v[j] # v[k]}

RECURSIVE Segmentations(_)
\* the ways to cut a word into syllables
Segmentations(word) ==
    IF word = <<>> THEN {<<>>}
    ELSE UNION {{<<SubSeq(word, 1, k)>> \o rest : rest \in Segmentations(SubSeq(word, k + 1, Len(word)))}
                : k \in 1..Len(word)}

\* what SyllableTokenize can answer for a word: an error, no syllable, or a
\* segmentation of the word
TokenizerAnswers(word) ==
    {[err |-> TRUE, Syllables |-> <<>>], [err |-> FALSE, Syllables |-> <<>>]}
        \cup {[err |-> FALSE, Syllables |-> s] : s \in Segmentations(word)}

NoAnswer == [err |-> TRUE, Syllables |-> <<>>]

(***************************************************************************)
(* RemoveSilentConsonants, applied by a caller to its own result           *)
(***************************************************************************)
InitStrip ==
    /\ specialCasesGlobal = SpecialCasesLiteral
    /\ sortedVowelPatterns = SortedPatterns
    /\ pc = "strip"
    /\ \E s \in SeqsUpTo(StripAlphabet, MaxStripLen) :
          call = [fn |-> "RemoveSilentConsonants", text |-> s]
    /\ ret = <<>>
    /\ dictionary = EmptyMap
    /\ syllableDict = EmptyMap
    /\ globalManager = "nil"
    /\ pythainlpFallbackCount = 0
    /\ segs = <<>>

Strip ==
    /\ pc = "strip"
    /\ Len(ret) < 2
    /\ ret' = Append(ret, RemoveSilentConsonants(call.text))
    /\ call' = [call EXCEPT !.text = RemoveSilentConsonants(call.text)]
    /\ UNCHANGED <<pc, dictionary, syllableDict, globalManager, segs, specialCasesGlobal, sortedVowelPatterns,
                   pythainlpFallbackCount>>

NextStrip == Strip

SpecStrip == InitStrip /\ [][NextStrip]_vars

(***************************************************************************)
(* calculateToneNum on every combination of its arguments                  *)
(***************************************************************************)
InitTone ==
    /\ specialCasesGlobal = SpecialCasesLiteral
    /\ sortedVowelPatterns = SortedPatterns
    /\ pc = "tone"
    /\ \E tc \in {"low", "mid", "high"}, live \in BOOLEAN, long \in BOOLEAN,
          tm \in {"", "MAI_EK", "MAI_THO", "MAI_TRI", "MAI_CHATTAWA"} :
          call = [fn |-> "calculateToneNum", toneClass |-> tc, isLive |-> live,
                  toneMark |-> tm, isLongVowelParam |-> long]
    /\ ret = <<>>
    /\ dictionary = EmptyMap
    /\ syllableDict = EmptyMap
    /\ globalManager = "nil"
    /\ pythainlpFallbackCount = 0
    /\ segs = <<>>

Tone ==
    /\ pc = "tone"
    /\ ret' = <<calculateToneNum(call.toneClass, call.isLive, call.toneMark,
                                 call.isLongVowelParam)>>
    /\ pc' = "done"
    /\ UNCHANGED <<call, dictionary, syllableDict, globalManager, segs, specialCasesGlobal, sortedVowelPatterns,
                   pythainlpFallbackCount>>

NextTone == Tone

SpecTone == InitTone /\ [][NextTone]_vars

(***************************************************************************)
(* The scanner on the words of the rules, without vocabulary rows         *)
(***************************************************************************)
\* the package after init with empty vocabulary files: the syllable
\* dictionary holds the short special cases
InitScan ==
    /\ specialCasesGlobal = SpecialCasesLiteral
    /\ sortedVowelPatterns = SortedPatterns
    /\ pc = "idle"
    /\ call = [fn |-> "init"]
    /\ ret = <<>>
    /\ \E loaded \in {LoadVocabulary(<<>>)} :
          /\ dictionary = loaded.dictionary
          /\ syllableDict = loaded.syllableDict
    /\ globalManager = "nil"
    /\ pythainlpFallbackCount = 0
    /\ segs = <<>>

\* a call of ComprehensiveTransliterate
ScanWord ==
    /\ pc = "idle"
    /\ \E word \in Words :
       \E t \in {ComprehensiveTrace(word)} :
          /\ call' = [fn |-> "ComprehensiveTransliterate", word |-> word]
          /\ ret' = <<TraceResult(word, t)>>
          /\ segs' = t.segments
    /\ pc' = "done"
    /\ UNCHANGED <<dictionary, syllableDict, globalManager, specialCasesGlobal, sortedVowelPatterns,
                   pythainlpFallbackCount>>

\* a call of ExtractSyllables
CallExtractSyllables ==
    /\ pc = "idle"
    /\ \E word \in Words :
          /\ call' = [fn |-> "ExtractSyllables", word |-> word]
          /\ ret' = <<ExtractSyllables(word)>>
    /\ pc' = "done"
    /\ UNCHANGED <<dictionary, syllableDict, globalManager, segs, specialCasesGlobal,
                   sortedVowelPatterns, pythainlpFallbackCount>>

NextScan ==
    \/ ScanWord
    \/ CallExtractSyllables

SpecScan == InitScan /\ [][NextScan]_vars

(***************************************************************************)
(* The word-level entry points                                             *)
(***************************************************************************)
\* the package after init: the vocabulary is loaded, no tokenizer yet
Init ==
    /\ specialCasesGlobal = SpecialCasesLiteral
    /\ sortedVowelPatterns = SortedPatterns
    /\ pc = "idle"
    /\ call = [fn |-> "init"]
    /\ ret = <<>>
    /\ \E rows \in Vocabularies :
       \E loaded \in {LoadVocabulary(rows)} :
          /\ dictionary = loaded.dictionary
          /\ syllableDict = loaded.syllableDict
    /\ globalManager = "nil"
    /\ pythainlpFallbackCount = 0
    /\ segs = <<>>

\* InitPythainlpWithRecreate; started is whether the tokenizer service came up
InitPythainlpWithRecreate ==
    /\ pc = "idle"
    /\ \E recreate \in BOOLEAN, started \in BOOLEAN :
          globalManager' = IF globalManager # "nil" /\ ~recreate THEN globalManager
                           ELSE IF started THEN "manager" ELSE "nil"
    /\ UNCHANGED <<pc, call, ret, dictionary, syllableDict, segs, specialCasesGlobal, sortedVowelPatterns,
                   pythainlpFallbackCount>>

ClosePythainlp ==
    /\ pc = "idle"
    /\ globalManager' = "nil"
    /\ UNCHANGED <<pc, call, ret, dictionary, syllableDict, segs, specialCasesGlobal, sortedVowelPatterns,
                   pythainlpFallbackCount>>

CallComprehensiveTransliterate ==
    /\ pc = "idle"
    /\ \E word \in ApiWords :
       \E t \in {ComprehensiveTrace(word)} :
          /\ call' = [fn |-> "ComprehensiveTransliterate", word |-> word]
          /\ ret' = <<TraceResult(word, t)>>
          /\ segs' = t.segments
    /\ pc' = "done"
    /\ UNCHANGED <<dictionary, syllableDict, globalManager, specialCasesGlobal, sortedVowelPatterns,
                   pythainlpFallbackCount>>

CallTransliterateWord ==
    /\ pc = "idle"
    /\ \E word \in ApiWords :
          /\ call' = [fn |-> "TransliterateWord", word |-> word]
          /\ ret' = <<TransliterateWord(word)>>
    /\ pc' = "done"
    /\ UNCHANGED <<dictionary, syllableDict, globalManager, segs, specialCasesGlobal, sortedVowelPatterns,
                   pythainlpFallbackCount>>

CallTransliterateWordRulesOnly ==
    /\ pc = "idle"
    /\ \E word \in ApiWords :
       \E tokenized \in IF globalManager = "nil" THEN {NoAnswer} ELSE TokenizerAnswers(word) :
          /\ call' = [fn |-> "TransliterateWordRulesOnly", word |-> word, tokenized |-> tokenized]
          /\ ret' = <<TransliterateWordRulesOnly(word, tokenized)>>
    /\ pc' = "done"
    /\ UNCHANGED <<dictionary, syllableDict, globalManager, segs, specialCasesGlobal, sortedVowelPatterns,
                   pythainlpFallbackCount>>

Next ==
    \/ InitPythainlpWithRecreate
    \/ ClosePythainlp
    \/ CallComprehensiveTransliterate
    \/ CallTransliterateWord
    \/ CallTransliterateWordRulesOnly

Spec == Init /\ [][Next]_vars
(***************************************************************************)
(* The entry points that ask the external tokenizer                        *)
(***************************************************************************)
MaxPipeWordLen == 3

\* the code points of the words: a consonant, a vowel, the repetition mark
PipeAlphabet == {"MO_MA", "SARA_AA", "MAIYAMOK"}

PipeWords == SeqsUpTo(PipeAlphabet, MaxPipeWordLen)

MaxTextLen == 4

\* the code points of the texts: a consonant, a vowel, the space and a code
\* point outside the Thai block
TextAlphabet == {"MO_MA", "SARA_AA", " ", "x"}

Texts == SeqsUpTo(TextAlphabet, MaxTextLen)

\* what AnalyzeWithOptions can answer for a text: an error, an empty
\* response, or the tokens of a segmentation of the text with its syllables
\* or with none
Analyses(text) ==
    {[err |-> TRUE, RawTokens |-> <<>>, Syllables |-> <<>>],
     [err |-> FALSE, RawTokens |-> <<>>, Syllables |-> <<>>]}
        \cup {[err |-> FALSE, RawTokens |-> s, Syllables |-> y] :
                 s \in Segmentations(text), y \in {<<>>} \cup Segmentations(text)}

\* the vocabulary files of this specification: empty, or one two-word row
PipeVocabularies == {<<>>, <<[th |-> <<"MO_MA", "SARA_AA", " ", "MO_MA", "SARA_AA">>, translit |-> <<"m", "a", "a", " ", "m", "a", "a">>]>>}

\* the package after init and after the calls of InitPythainlp so far
InitPipeline ==
    /\ specialCasesGlobal = SpecialCasesLiteral
    /\ sortedVowelPatterns = SortedPatterns
    /\ pc = "idle"
    /\ call = [fn |-> "init"]
    /\ ret = <<>>
    /\ \E rows \in PipeVocabularies :
       \E loaded \in {LoadVocabulary(rows)} :
          /\ dictionary = loaded.dictionary
          /\ syllableDict = loaded.syllableDict
    /\ globalManager \in {"nil", "manager"}
    /\ pythainlpFallbackCount = 0
    /\ segs = <<>>

\* a call of Manager.ThaiToRoman on a manager whose service is up
CallThaiToRoman ==
    /\ pc = "idle"
    /\ \E text \in Texts :
       \E analysis \in Analyses(text) :
          /\ call' = [fn |-> "ThaiToRoman", text |-> text, analysis |-> analysis]
          /\ ret' = <<ThaiToRoman(text, analysis)>>
    /\ pc' = "done"
    /\ UNCHANGED <<dictionary, syllableDict, globalManager, segs, specialCasesGlobal,
                   sortedVowelPatterns, pythainlpFallbackCount>>

\* a call of transliterateWithPythainlp
CallTransliterateWithPythainlp ==
    /\ pc = "idle"
    /\ \E word \in PipeWords :
       \E tokenized \in TokenizerAnswers(word) :
          /\ call' = [fn |-> "transliterateWithPythainlp", word |-> word,
                      tokenized |-> tokenized]
          /\ ret' = <<transliterateWithPythainlp(word, tokenized)>>
          /\ pythainlpFallbackCount' = IF TokenizeFailed(tokenized)
                                       THEN pythainlpFallbackCount + 1
                                       ELSE pythainlpFallbackCount
    /\ pc' = "done"
    /\ UNCHANGED <<dictionary, syllableDict, globalManager, segs, specialCasesGlobal,
                   sortedVowelPatterns>>

\* a call of TransliterateWordRulesOnly on the words of this specification
CallRulesOnlyTokenized ==
    /\ pc = "idle"
    /\ \E word \in PipeWords :
       \E tokenized \in IF globalManager = "nil" THEN {NoAnswer} ELSE TokenizerAnswers(word) :
          /\ call' = [fn |-> "TransliterateWordRulesOnly", word |-> word, tokenized |-> tokenized]
          /\ ret' = <<TransliterateWordRulesOnly(word, tokenized)>>
    /\ pc' = "done"
    /\ UNCHANGED <<dictionary, syllableDict, globalManager, segs, specialCasesGlobal,
                   sortedVowelPatterns, pythainlpFallbackCount>>

NextPipeline ==
    \/ CallThaiToRoman
    \/ CallTransliterateWithPythainlp
    \/ CallRulesOnlyTokenized

SpecPipeline == InitPipeline /\ [][NextPipeline]_vars

(***************************************************************************)
(* init on the lines of a vocabulary file                                  *)
(***************************************************************************)
MaxLineLen == 4

\* the code points of a line: a code point outside the Thai block, the
\* comma, two Thai code points and the hyphen
LineAlphabet == {"x", ",", "MO_MA", "SARA_AA", "-"}

\* well-formed lines: two words that share a syllable, a short word
VocabLines ==
    {<<"x", ",", "MO_MA", "SARA_AA", "KHO_KHAI", "SARA_AA", ",", "m", "a_circumflex", "a", "-", "k", "a", "a">>, <<"x", ",", "MO_MA", "SARA_AA", "MO_MA", "SARA_U", ",", "m", "a", "a", "-", "m", "u">>, <<"x", ",", "KHO_KHAI", "SARA_AA", ",", "k", "a", "a">>}

MaxFileLines == 3

\* the vocabulary files: one line of any shape, or well-formed lines
Files ==
    {<<l>> : l \in SeqsUpTo(LineAlphabet, MaxLineLen)}
        \cup {f \in SeqsUpTo(VocabLines, MaxFileLines) : \A j, k \in 1..Len(f) : j # k => f[j] # f[k]}

\* the package before init runs: empty dictionaries
InitLoad ==
    /\ specialCasesGlobal = SpecialCasesLiteral
    /\ sortedVowelPatterns = SortedPatterns
    /\ pc = "init"
    /\ \E f \in Files : call = [fn |-> "init", file |-> f, line |-> 0, keys |-> <<>>, short |-> EmptyMap]
    /\ ret = <<>>
    /\ dictionary = EmptyMap
    /\ syllableDict = EmptyMap
    /\ globalManager = "nil"
    /\ pythainlpFallbackCount = 0
    /\ segs = <<>>

\* one round of the loop of init over the lines of the file
InitReadLine ==
    /\ pc = "init"
    /\ call.line < Len(call.file)
    /\ \E row \in {ReadLine(call.file[call.line + 1],
                            [dictionary |-> dictionary, syllableDict |-> syllableDict])} :
          /\ dictionary' = row.dictionary
          /\ syllableDict' = row.syllableDict
          /\ pc' = IF row.panic THEN "panic" ELSE "init"
    /\ call' = [call EXCEPT !.line = @ + 1]
    /\ UNCHANGED <<ret, globalManager, segs, specialCasesGlobal, sortedVowelPatterns,
                   pythainlpFallbackCount>>

\* the end of init: extractSyllablesFromDictionary; keys is the order in
\* which the range loop visits the dictionary
InitExtractSyllables ==
    /\ pc = "init"
    /\ call.line = Len(call.file)
    /\ \E keys \in KeyOrders(dictionary) :
          /\ call' = [call EXCEPT !.keys = keys, !.short = syllableDict]
          /\ syllableDict' = Harvested(keys, dictionary, syllableDict)
    /\ pc' = "idle"
    /\ UNCHANGED <<ret, dictionary, globalManager, segs, specialCasesGlobal,
                   sortedVowelPatterns, pythainlpFallbackCount>>

NextLoad ==
    \/ InitReadLine
    \/ InitExtractSyllables

SpecLoad == InitLoad /\ [][NextLoad]_vars

(***************************************************************************)
(* Concurrent callers of the transliteration entry points                  *)
(***************************************************************************)
\* the goroutines that call the package after init
Callers == {1, 2}

\* the words the callers transliterate
CallerWords == {<<"MO_MA">>, <<"MO_MA", "SARA_AA">>}

\* the entry points the callers run
CallerEntryPoints ==
    {"ComprehensiveTransliterate", "TransliterateWordRulesOnly", "transliterateWithPythainlp"}

\* what SyllableTokenize answers a caller: an error, or the word as one syllable
CallerAnswers(word) == {NoAnswer, [err |-> FALSE, Syllables |-> <<word>>]}

\* the package after init, no caller running; pc, call and ret are per caller
InitConcurrent ==
    /\ specialCasesGlobal = SpecialCasesLiteral
    /\ sortedVowelPatterns = SortedPatterns
    /\ pc = [c \in Callers |-> "idle"]
    /\ call = [c \in Callers |-> [fn |-> "none"]]
    /\ ret = [c \in Callers |-> <<>>]
    /\ \E loaded \in {LoadVocabulary(<<>>)} :
          /\ dictionary = loaded.dictionary
          /\ syllableDict = loaded.syllableDict
    /\ globalManager \in {"nil", "manager"}
    /\ pythainlpFallbackCount = 0
    /\ segs = <<>>

\* a caller enters an entry point and, where the entry point asks the
\* tokenizer, gets its answer; transliterateWithPythainlp goes on to count
\* the fallback when the answer is a failure
CallerStart ==
    /\ \E c \in Callers, fn \in CallerEntryPoints, word \in CallerWords :
       \E tokenized \in IF fn = "ComprehensiveTransliterate"
                           \/ (fn = "TransliterateWordRulesOnly" /\ globalManager = "nil")
                        THEN {NoAnswer} ELSE CallerAnswers(word) :
          /\ pc[c] = "idle"
          /\ call' = [call EXCEPT ![c] = [fn |-> fn, word |-> word, tokenized |-> tokenized,
                                          count |-> 0]]
          /\ pc' = [pc EXCEPT ![c] = IF fn = "transliterateWithPythainlp"
                                        /\ TokenizeFailed(tokenized)
                                     THEN "load" ELSE "return"]
    /\ UNCHANGED <<ret, dictionary, syllableDict, globalManager, segs, specialCasesGlobal,
                   sortedVowelPatterns, pythainlpFallbackCount>>

\* pythainlpFallbackCount++, first half: the caller reads the counter
CallerLoadCount ==
    /\ \E c \in Callers :
          /\ pc[c] = "load"
          /\ call' = [call EXCEPT ![c].count = pythainlpFallbackCount]
          /\ pc' = [pc EXCEPT ![c] = "store"]
    /\ UNCHANGED <<ret, dictionary, syllableDict, globalManager, segs, specialCasesGlobal,
                   sortedVowelPatterns, pythainlpFallbackCount>>

\* pythainlpFallbackCount++, second half: the caller writes the counter
CallerStoreCount ==
    /\ \E c \in Callers :
          /\ pc[c] = "store"
          /\ pythainlpFallbackCount' = call[c].count + 1
          /\ pc' = [pc EXCEPT ![c] = "return"]
    /\ UNCHANGED <<call, ret, dictionary, syllableDict, globalManager, segs,
                   specialCasesGlobal, sortedVowelPatterns>>

\* the rest of the entry point: it reads the dictionaries and the tables
\* and returns
CallerReturn ==
    /\ \E c \in Callers :
          /\ pc[c] = "return"
          /\ ret' = [ret EXCEPT ![c] =
                        <<CASE call[c].fn = "ComprehensiveTransliterate" ->
                                 ComprehensiveTransliterate(call[c].word)
                            [] call[c].fn = "TransliterateWordRulesOnly" ->
                                 TransliterateWordRulesOnly(call[c].word, call[c].tokenized)
                            [] call[c].fn = "transliterateWithPythainlp" ->
                                 transliterateWithPythainlp(call[c].word, call[c].tokenized)>>]
          /\ pc' = [pc EXCEPT ![c] = "done"]
    /\ UNCHANGED <<call, dictionary, syllableDict, globalManager, segs, specialCasesGlobal,
                   sortedVowelPatterns, pythainlpFallbackCount>>

NextConcurrent ==
    \/ CallerStart
    \/ CallerLoadCount
    \/ CallerStoreCount
    \/ CallerReturn

SpecConcurrent == InitConcurrent /\ [][NextConcurrent]_vars
(***************************************************************************)
(* The comprehensive parser and builder on single syllables                *)
(***************************************************************************)
MaxParseLen == 3

\* the code points of the parser's syllables: a low, a mid and a high
\* consonant, RO RUA, a short, a long and a leading vowel, a tone mark, the
\* thanthakhat and a code point outside the Thai block
ParseAlphabet == {"MO_MA", "KO_KAI", "HO_HIP", "RO_RUA", "SARA_A", "SARA_AA", "SARA_E", "MAI_EK", "THANTHAKHAT", "x"}

\* the spellings after the initial of a syllable led by SARA E
MedialsAfterE ==
    {<<"SARA_II", "YO_YAK">>, <<"SARA_II", "YO_YAK", "WO_WAEN">>, <<"SARA_UEE", "O_ANG">>, <<"SARA_AA">>, <<"SARA_I">>, <<"MAITAIKHU">>, <<"O_ANG">>, <<"O_ANG", "SARA_A">>, <<"SARA_AA", "SARA_A">>, <<"SARA_A">>, <<>>}

\* the syllables led by SARA E: a mid or a low initial and a medial spelling
SyllablesWithE == {<<"SARA_E", "KO_KAI">> \o m : m \in MedialsAfterE} \cup {<<"SARA_E", "MO_MA">> \o m : m \in MedialsAfterE}

\* syllables with O ANG after the initial: open and closed, with and without
\* a tone mark before or after O ANG, after a low, a mid and a high initial
SyllablesWithO ==
    UNION {{c \o <<"O_ANG">>, c \o <<"MAI_EK", "O_ANG">>, c \o <<"O_ANG", "KO_KAI">>, c \o <<"O_ANG", "NGO_NGU">>, c \o <<"MAI_EK", "O_ANG", "NGO_NGU">>, c \o <<"O_ANG", "MAI_EK", "NGO_NGU">>}
           : c \in {<<"MO_MA">>, <<"PHO_PHAN">>, <<"KO_KAI">>, <<"HO_HIP">>, <<"KO_KAI", "RO_RUA">>}}

\* short open syllables: a short vowel, no final consonant, no tone mark
ShortOpenSyllables ==
    {<<"SARA_AE", "KO_KAI", "SARA_A">>, <<"SARA_E", "TO_TAO", "SARA_A">>, <<"RO_RUA", "SARA_UE">>, <<"MO_MA", "SARA_I">>, <<"KO_KAI", "SARA_U">>, <<"KHO_KHAI", "SARA_U">>, <<"SARA_O", "MO_MA", "SARA_A">>, <<"SARA_AE", "HO_HIP", "SARA_A">>, <<"MO_MA", "SARA_A">>, <<"KO_KAI", "SARA_A">>}

\* syllables of the patterns that share rune length and priority with
\* another pattern
SyllablesOfTiedPatterns ==
    {<<"SARA_AE", "KHO_KHAI", "MAITAIKHU", "NGO_NGU">>, <<"PO_PLA", "RO_RUA", "SARA_A", "KO_KAI">>, <<"SARA_AE", "KO_KAI", "RO_RUA", "NGO_NGU">>, <<"KO_KAI", "RO_RUA", "SARA_A", "DO_DEK">>, <<"KO_KAI", "RO_RUA", "RO_RUA", "MO_MA">>, <<"PO_PLA", "RO_RUA", "RO_RUA", "SARA_AA", "KO_KAI">>, <<"KO_KAI", "LO_LING", "MAI_HAN_AKAT", "WO_WAEN">>, <<"KO_KAI", "LO_LING", "WO_WAEN", "YO_YAK">>,
     <<"KO_KAI", "MAI_HAN_AKAT", "WO_WAEN">>, <<"KO_KAI", "WO_WAEN", "YO_YAK">>, <<"MO_MA", "MAI_EK", "WO_WAEN", "YO_YAK">>, <<"MO_MA", "MAI_HAN_AKAT", "MAI_EK", "WO_WAEN">>}

\* the syllables given to the rule functions
ParseSyllables ==
    SeqsUpTo(ParseAlphabet, MaxParseLen) \cup SyllablesWithE \cup SyllablesWithO
        \cup ShortOpenSyllables \cup SyllablesOfTiedPatterns

\* the package after init, before a call of a rule function on a syllable
InitParse ==
    /\ specialCasesGlobal = SpecialCasesLiteral
    /\ sortedVowelPatterns = SortedPatterns
    /\ pc = "parse"
    /\ \E syl \in ParseSyllables : call = [fn |-> "none", syl |-> syl]
    /\ ret = <<>>
    /\ dictionary = EmptyMap
    /\ syllableDict = EmptyMap
    /\ globalManager = "nil"
    /\ pythainlpFallbackCount = 0
    /\ segs = <<>>

\* improvedTransliterate(syl): what it returns and what the matching
\* template computed on the way
MatchSyllable ==
    /\ pc = "parse"
    /\ \E m \in {improvedMatch(call.syl)} :
          ret' = IF m.match THEN <<m.result, MatchDetail(m)>> ELSE <<<<>>, NoDetail>>
    /\ call' = [call EXCEPT !.fn = "improvedTransliterate"]
    /\ pc' = "matched"
    /\ UNCHANGED <<dictionary, syllableDict, globalManager, segs, specialCasesGlobal,
                   sortedVowelPatterns, pythainlpFallbackCount>>

\* parseThaiSyllable(syl)
ParseSyllable ==
    /\ pc = "parse"
    /\ ret' = <<parseThaiSyllable(call.syl)>>
    /\ call' = [call EXCEPT !.fn = "parseThaiSyllable"]
    /\ pc' = "parsed"
    /\ UNCHANGED <<dictionary, syllableDict, globalManager, segs, specialCasesGlobal,
                   sortedVowelPatterns, pythainlpFallbackCount>>

\* buildPaiboonFromSyllable(parsed): what it computed on the way and what
\* it returns
BuildSyllable ==
    /\ pc = "parsed"
    /\ \E cs \in {ret[1]} :
          ret' = <<cs, BuildDetail(cs), buildPaiboonFromSyllable(cs)>>
    /\ pc' = "built"
    /\ UNCHANGED <<call, dictionary, syllableDict, globalManager, segs, specialCasesGlobal,
                   sortedVowelPatterns, pythainlpFallbackCount>>

NextParse ==
    \/ MatchSyllable
    \/ ParseSyllable
    \/ BuildSyllable

SpecParse == InitParse /\ [][NextParse]_vars

(***************************************************************************)
(* TransliterateWordWithSyllables on a word and a list of syllables         *)
(***************************************************************************)
MaxSyllables == 3

\* the words given to TransliterateWordWithSyllables
AlignWords ==
    {<<>>, <<"MO_MA", "SARA_AA">>, <<"MO_MA", "SARA_AA", "KO_KAI">>, <<"KO_KAI", "SARA_AA", "MO_MA", "SARA_AA">>, <<"MO_MA", "SARA_AA", "MO_MA", "SARA_AA">>, <<"x">>, <<"MO_MA", "SARA_AA">> \o <<"x">>, <<"NO_NU", "MAI_THO", "SARA_AM", "MO_MA", "SARA_AA">>}

\* the syllables the caller may supply: right ones, wrong ones, the empty one
AlignSyllables ==
    {<<>>, <<"MO_MA", "SARA_AA">>, <<"MO_MA">>, <<"SARA_AA">>, <<"KO_KAI", "SARA_AA">>, <<"MO_MA", "SARA_AA", "KO_KAI">>, <<"NO_NU", "MAI_THO", "SARA_AM">>, <<"x">>}

\* the word dictionary of the call: empty, or with one of the words
AlignDictionaries == {EmptyMap, <<"MO_MA", "SARA_AA">> :> <<"m", "a", "a">>}

\* the package before a call of TransliterateWordWithSyllables
InitAlign ==
    /\ specialCasesGlobal = SpecialCasesLiteral
    /\ sortedVowelPatterns = SortedPatterns
    /\ pc = "call"
    /\ \E word \in AlignWords : \E syllables \in SeqsUpTo(AlignSyllables, MaxSyllables) :
          call = [fn |-> "TransliterateWordWithSyllables", word |-> word,
                  syllables |-> syllables]
    /\ ret = <<>>
    /\ dictionary \in AlignDictionaries
    /\ syllableDict = EmptyMap
    /\ globalManager = "nil"
    /\ pythainlpFallbackCount = 0
    /\ segs = <<>>

\* TransliterateWordWithSyllables(word, syllables) runs: ret holds the result
\* and, when the word is not in the dictionary, the local wordSyllables
CallTransliterateWordWithSyllables ==
    /\ pc = "call"
    /\ ret' = IF call.word \in DOMAIN dictionary
              THEN <<TransliterateWordWithSyllables(call.word, call.syllables)>>
              ELSE <<TransliterateWordWithSyllables(call.word, call.syllables),
                     SelectWordSyllables(call.word, call.syllables)>>
    /\ pc' = "done"
    /\ UNCHANGED <<call, dictionary, syllableDict, globalManager, segs, specialCasesGlobal,
                   sortedVowelPatterns, pythainlpFallbackCount>>

NextAlign == CallTransliterateWordWithSyllables

SpecAlign == InitAlign /\ [][NextAlign]_vars

(***************************************************************************)
(* Claims                                                                  *)
(***************************************************************************)

\* C2 (as claimed): stripping is idempotent: for every string, stripping the
\* stripped string again gives the stripped string.
C2_StripIdempotent ==
    (pc = "strip" /\ Len(ret) = 2) => ret[2] = ret[1]

\* The tone of the rule table of the tone calculator, cell by cell.
\* Defined cells only: mai tri and mai chattawa are defined for the mid class.
TableTone(tc, live, long, tm) ==
    CASE tm = "" /\ tc = "mid" /\ live -> 0
      [] tm = "" /\ tc = "mid" /\ ~live -> 1
      [] tm = "" /\ tc = "high" /\ live -> 4
      [] tm = "" /\ tc = "high" /\ ~live -> 1
      [] tm = "" /\ tc = "low" /\ live -> 0
      [] tm = "" /\ tc = "low" /\ ~live /\ ~long -> 2
      [] tm = "" /\ tc = "low" /\ ~live /\ long -> 3
      [] tm = "MAI_EK" /\ tc = "low" -> 3
      [] tm = "MAI_EK" /\ tc = "mid" -> 1
      [] tm = "MAI_EK" /\ tc = "high" -> 1
      [] tm = "MAI_THO" /\ tc = "low" -> 2
      [] tm = "MAI_THO" /\ tc = "mid" -> 3
      [] tm = "MAI_THO" /\ tc = "high" -> 3
      [] tm = "MAI_TRI" /\ tc = "mid" -> 2
      [] tm = "MAI_CHATTAWA" /\ tc = "mid" -> 4

TableDefined(tc, tm) ==
    tm \in {"", "MAI_EK", "MAI_THO"} \/ tc = "mid"

\* C3: in every defined cell of the rule table the tone calculator returns
\* the table's tone; an explicit mark decides the tone whatever the liveness
\* and the vowel length are.
C3_ToneTable ==
    (pc = "done" /\ call.fn = "calculateToneNum" /\ TableDefined(call.toneClass, call.toneMark))
        => ret[1] = TableTone(call.toneClass, call.isLive, call.isLongVowelParam, call.toneMark)

\* C3 witness: a low-class dead syllable with a long vowel and no mark got falling tone
C3_Witness ==
    /\ pc = "done" /\ call.fn = "calculateToneNum"
    /\ call.toneClass = "low" /\ ~call.isLive /\ call.isLongVowelParam /\ call.toneMark = ""
    /\ ret = <<3>>

\* the calls of the word-level entry points that returned
Returned(fn) == pc = "done" /\ call.fn = fn

RuleSegments ==
    {k \in 1..Len(segs) : segs[k].path \in {"matcher", "builder", "single"}}

\* the combining tone marks and the vowel base characters of the output
CombiningToneMarks == {"grave", "acute", "circumflex", "caron"}

VowelBases == {"a", "e", "i", "o", "u", "schwa", "open_e", "open_o", "u_bar"}

\* exactly one combining tone mark, right after the first vowel base
OneMarkOnFirstVowel(d) ==
    /\ Cardinality({p \in 1..Len(d) : d[p] \in CombiningToneMarks}) = 1
    /\ \E p \in 2..Len(d) :
          /\ d[p] \in CombiningToneMarks
          /\ d[p - 1] \in VowelBases
          /\ \A q \in 1..(p - 2) : d[q] \notin VowelBases

\* C4 (as claimed): every non-empty syllable the matcher or the builder
\* romanized with a tone other than mid carries, in its canonical
\* decomposition, exactly one combining tone mark, right after its first
\* vowel base character.
C4_TonePlacement ==
    Returned("ComprehensiveTransliterate")
        => \A k \in RuleSegments :
              (segs[k].trans # <<>> /\ segs[k].detail.toneNum # 0)
                  => OneMarkOnFirstVowel(NFD(segs[k].trans))

\* the romanized finals of dead and of live syllables
StopFinals == {<<"p">>, <<"t">>, <<"k">>}

SonorantFinals == {<<"m">>, <<"n">>, <<"n", "g">>, <<"i">>, <<"o">>}

\* a romanized vowel with a doubled vowel letter
HasLongVowel(vowel) ==
    \E p \in 1..(Len(vowel) - 1) : vowel[p] \in VowelBases /\ vowel[p + 1] = vowel[p]

\* C5 (as claimed): in the matcher and in the builder a syllable whose final
\* romanizes to p, t or k is dead; any other syllable with a long vowel, a
\* sonorant final (m, n, ng, i, o) or no final is live.
C5_LiveDead ==
    Returned("ComprehensiveTransliterate")
        => \A k \in RuleSegments :
              LET d == segs[k].detail IN
              /\ d.finalSound \in StopFinals => ~d.isLive
              /\ (d.finalSound \notin StopFinals
                    /\ (HasLongVowel(d.vowelSound) \/ d.finalSound \in SonorantFinals
                          \/ d.finalThai = ""))
                    => d.isLive

\* the high and the mid consonants of the tone classes
HighConsonants ==
    {"KHO_KHAI", "KHO_KHUAT", "CHO_CHING", "THO_THAN", "THO_THUNG", "PHO_PHUNG", "FO_FA", "SO_SALA", "SO_RUSI", "SO_SUA", "HO_HIP"}

MidConsonants ==
    {"KO_KAI", "CHO_CHAN", "DO_CHADA", "TO_PATAK", "DO_DEK", "TO_TAO", "BO_BAIMAI", "PO_PLA", "O_ANG"}

\* the tone class of an initial: high for a cluster led by HO HIP, otherwise
\* the class of the first consonant, low for every consonant neither high nor mid
ClassOfInitial(initials) ==
    IF Len(initials) = 2 /\ initials[1] = "HO_HIP" THEN "high"
    ELSE IF initials[1] \in HighConsonants THEN "high"
    ELSE IF initials[1] \in MidConsonants THEN "mid"
    ELSE "low"

\* C6 (as claimed): the tone class the matcher and the builder use for a
\* syllable with an initial consonant is high for a cluster led by HO HIP
\* and otherwise the class of the first initial consonant, every consonant
\* that is neither high nor mid being low.
C6_ToneClass ==
    Returned("ComprehensiveTransliterate")
        => \A k \in RuleSegments :
              segs[k].detail.initials # <<>>
                  => segs[k].detail.toneClass = ClassOfInitial(segs[k].detail.initials)

\* where the consonants of a syllable start: after a leading vowel if there is one
InitialAt(syl) == IF isLeadingVowel(syl[1]) THEN 2 ELSE 1

\* the syllable starts with two consonants that a vowel follows
TwoConsonantInitial(syl) ==
    LET p == InitialAt(syl) IN
    /\ Len(syl) >= p + 2
    /\ isConsonant(syl[p]) /\ isConsonant(syl[p + 1])
    /\ isVowel(syl[p + 2]) /\ ~isLeadingVowel(syl[p + 2])

\* C7 (as claimed): a two-consonant initial is romanized with its cluster
\* entry exactly if the pair is in the cluster table; of any other pair the
\* second consonant is the syllable's final, or the first is a silent HO HIP
\* and the second the initial.
C7_ClusterSoundness ==
    Returned("ComprehensiveTransliterate")
        => \A k \in RuleSegments :
              TwoConsonantInitial(segs[k].syl)
                  => LET syl == segs[k].syl
                         p == InitialAt(syl)
                         d == segs[k].detail
                     IN  IF <<syl[p], syl[p + 1]>> \in DOMAIN clusters
                         THEN d.initialSound = clusters[<<syl[p], syl[p + 1]>>]
                         ELSE \/ /\ d.finalThai = syl[p + 1]
                                 /\ d.initialSound = initialConsonants[syl[p]]
                              \/ /\ syl[p] = "HO_HIP"
                                 /\ d.initialSound = initialConsonants[syl[p + 1]]

\* the keys of two or more code points, inside the window of the scanner,
\* that end the word
SuffixKeys(word) ==
    {n \in 2..MaxSyllableLen :
        /\ n <= Len(word)
        /\ \/ SubSeq(word, Len(word) - n + 1, Len(word)) \in DOMAIN specialCasesGlobal
           \/ SubSeq(word, Len(word) - n + 1, Len(word)) \in DOMAIN syllableDict}

\* C8 (as claimed): when the word ends in a consonant and a key of two or
\* more code points is a suffix of the word, the scanner does not emit that
\* consonant as a segment of its own.
C8_LongestMatchSafety ==
    (Returned("ComprehensiveTransliterate") /\ Len(call.word) > 0
        /\ isConsonant(call.word[Len(call.word)]) /\ SuffixKeys(call.word) # {})
        => ~\E k \in 1..Len(segs) :
                segs[k].to = Len(call.word) /\ segs[k].from = Len(call.word) - 1

\* C9 (as claimed): what ComprehensiveTransliterate and TransliterateWord
\* return is its own normalization to NFC.
C9_NFCClosure ==
    (Returned("ComprehensiveTransliterate") \/ Returned("TransliterateWord"))
        => ret[1] = NFC(ret[1])

\* C10 (as claimed): the word-level transliteration returns the empty string
\* only for a word that silent-consonant stripping reduces to the empty string.
C10_EmptyOnlyForSilent ==
    (Returned("ComprehensiveTransliterate") /\ ret[1] = <<>>)
        => RemoveSilentConsonants(call.word) = <<>>
(***************************************************************************)
(* Properties of the entry points that ask the tokenizer                   *)
(***************************************************************************)
\* C11 (as claimed): tokenizer failure is absorbed: when the tokenizer
\* answered with an error or with an empty response, the entry point that
\* asked it (Manager.ThaiToRoman, TransliterateWordRulesOnly,
\* transliterateWithPythainlp) returns no error and returns the rules-only
\* transliteration of the word it was given.
C11_TokenizerFailureAbsorbed ==
    /\ Returned("TransliterateWordRulesOnly")
       /\ (call.tokenized.err \/ call.tokenized.Syllables = <<>>)
       /\ call.word \notin DOMAIN dictionary
       => ret[1] = ComprehensiveTransliterate(call.word)
    /\ Returned("transliterateWithPythainlp")
       /\ (call.tokenized.err \/ call.tokenized.Syllables = <<>>)
       => ret[1] = ComprehensiveTransliterate(call.word)
    /\ Returned("ThaiToRoman")
       /\ (call.analysis.err \/ call.analysis.RawTokens = <<>>)
       /\ call.text \notin DOMAIN dictionary
       => ~ret[1].err /\ ret[1].value = ComprehensiveTransliterate(call.text)

(***************************************************************************)
(* Properties of init                                                      *)
(***************************************************************************)
\* C12: deterministic initialization: the syllable dictionary init leaves
\* is the same whatever the order in which the range loop of
\* extractSyllablesFromDictionary visited the keys of the dictionary.
C12_DeterministicInit ==
    pc = "idle" /\ call.fn = "init" /\ call.keys # <<>>
    => \A keys \in KeyOrders(dictionary) :
          syllableDict = Harvested(keys, dictionary, call.short)

\* C12 witness: init harvested two words that give the same syllable
\* different romanizations, and visited the keys in descending order
C12_Witness ==
    /\ pc = "idle" /\ call.fn = "init"
    /\ Len(call.keys) >= 2
    /\ StringLess(call.keys[2], call.keys[1])
    /\ <<"MO_MA", "SARA_AA", "KHO_KHAI", "SARA_AA">> \in DOMAIN dictionary /\ <<"MO_MA", "SARA_AA", "MO_MA", "SARA_U">> \in DOMAIN dictionary
    /\ <<"MO_MA", "SARA_AA">> \in DOMAIN syllableDict

\* the shape <prefix>,<thai>,<romanization> with a Thai code point in the
\* Thai column
WellShaped(line) ==
    /\ Len(Split(line, ",")) = 3
    /\ \E k \in 1..Len(Split(line, ",")[2]) : isThaiRune(Split(line, ",")[2][k])

\* C18 (as claimed): vocabulary loading skips bad lines: after init read a
\* line that is blank or not of the shape <prefix>,<thai>,<romanization>,
\* init has not failed and the line has added nothing to the dictionaries.
C18_BadLinesSkipped ==
    /\ call.fn = "init" /\ pc \in {"init", "panic"}
    /\ Len(call.file) = 1 /\ call.line = 1
    /\ ~WellShaped(call.file[1])
    => pc # "panic" /\ dictionary = EmptyMap /\ syllableDict = EmptyMap

(***************************************************************************)
(* Properties of concurrent callers                                        *)
(***************************************************************************)
\* C13 (as claimed): lock-free concurrency: the transliteration entry
\* points write to no shared variable, so no two callers are ever about to
\* access the same shared variable with at least one of them writing it.
C13_NoConcurrentWrite ==
    \A c, d \in Callers :
        c # d => ~(pc[c] = "store" /\ pc[d] \in {"load", "store"})

(***************************************************************************)
(* Properties of the entry points that ask the external tokenizer          *)
(***************************************************************************)
\* the tokenizer answered the two syllables s and mai yamok, s not a
\* repetition mark itself
SyllableThenYamok ==
    /\ ~call.tokenized.err
    /\ Len(call.tokenized.Syllables) = 2
    /\ call.tokenized.Syllables[1] # <<"MAIYAMOK">>
    /\ call.tokenized.Syllables[2] = <<"MAIYAMOK">>

\* C14 (as claimed): mai-yamok repetition: a word transliterated from the
\* tokenizer's syllables [s, mai yamok], where s has the non-empty
\* romanization r, yields r-r, in TransliterateWordRulesOnly and in
\* transliterateWithPythainlp alike.
C14_YamokRepeats ==
    /\ (Returned("transliterateWithPythainlp") /\ SyllableThenYamok)
          => \A r \in {TransliterateTokenized(<<call.tokenized.Syllables[1]>>, <<>>)} :
                 r # <<>> => ret[1] = JoinWith(<<r[1], r[1]>>, <<"-">>)
    /\ (Returned("TransliterateWordRulesOnly") /\ SyllableThenYamok
            /\ globalManager # "nil" /\ call.word \notin DOMAIN dictionary)
          => \A r \in {ComprehensiveTransliterate(call.tokenized.Syllables[1])} :
                 r # <<>> => ret[1] = JoinWith(<<r, r>>, <<"-">>)

\* ThaiToRoman returned a romanization made from the tokenizer's tokens
Romanized ==
    /\ Returned("ThaiToRoman")
    /\ ~ret[1].err
    /\ call.text \notin DOMAIN dictionary

\* the word tokens of the analysis: the tokens that are neither empty nor a space
WordTokens ==
    {call.analysis.RawTokens[k] : k \in 1..Len(call.analysis.RawTokens)} \ {<<>>, <<" ">>}

\* containsThai of the corpus driver: some code point of w is Thai
ContainsThai(w) == \E k \in 1..Len(w) : isThaiRune(w[k])

\* C15 (as claimed): pass-through of non-Thai tokens: every word token with
\* no Thai code point appears unchanged in the output of the pipeline
\* driver.
C15_PassThrough ==
    Romanized => \A w \in WordTokens : ~ContainsThai(w) => Contains(ret[1].value, w)

\* the positions of the word tokens among the tokens of the analysis
WordTokenIndexes ==
    LET T == call.analysis.RawTokens
        F[k \in 0..Len(T)] ==
            IF k = 0 THEN <<>>
            ELSE IF T[k] \notin {<<>>, <<" ">>} THEN Append(F[k - 1], k) ELSE F[k - 1]
    IN  F[Len(T)]

\* the separator the text puts between the word tokens at positions i and j
\* of the analysis: a space when a space token lies between them, else "-"
SeparatorBetween(i, j) ==
    IF \E k \in (i + 1)..(j - 1) : call.analysis.RawTokens[k] = <<" ">> THEN <<" ">> ELSE <<"-">>

\* the romanizations joined by the separator of each token boundary
JoinedByBoundary(results, idx) ==
    LET F[n \in 0..Len(results)] ==
            IF n = 0 THEN <<>>
            ELSE IF n = 1 THEN results[1]
            ELSE F[n - 1] \o SeparatorBetween(idx[n - 1], idx[n]) \o results[n]
    IN  F[Len(results)]

\* C16 (as claimed): token joining: when every word token has a
\* romanization and no token holds a space inside, two consecutive
\* romanized tokens are separated by a space exactly when the text has a
\* space between them, and by "-" otherwise.
C16_JoinByBoundary ==
    Romanized
        => \A results \in {RomanizeTokens(call.analysis.RawTokens, call.analysis.Syllables)} :
              (/\ Len(results) = Len(WordTokenIndexes)
               /\ \A w \in WordTokens : ~Contains(w, <<" ">>))
                 => ret[1].value = JoinedByBoundary(results, WordTokenIndexes)

(***************************************************************************)
(* Properties of the tone calculator, continued                            *)
(***************************************************************************)
\* C17 (as claimed): mai tri and mai jattawa are ignored outside the mid
\* class: for tone class high or low the tone computed with one of these
\* marks is the tone the same class, liveness and vowel length give with no
\* mark, in the tone calculator and in the builder.
C17_TriJattawaIgnored ==
    (/\ pc = "done" /\ call.fn = "calculateToneNum"
     /\ call.toneClass \in {"high", "low"}
     /\ call.toneMark \in {"MAI_TRI", "MAI_CHATTAWA"})
        => /\ ret[1] = calculateToneNum(call.toneClass, call.isLive, "", call.isLongVowelParam)
           /\ BuilderToneNum(call.toneClass, call.isLive, call.toneMark)
                 = BuilderToneNum(call.toneClass, call.isLive, "")

(***************************************************************************)
(* Properties of the scanner, continued                                    *)
(***************************************************************************)
\* the lengths at position i that the orphan rule does not exclude and that
\* cut a key of the special cases or of the syllable dictionary out of W
KeyLengths(W, i) ==
    {L \in 1..(IF Len(W) - i > 8 THEN 8 ELSE Len(W) - i) :
        /\ ~(Len(W) - (i + L) = 1 /\ isConsonant(W[Len(W)]))
        /\ \/ SubSeq(W, i + 1, i + L) \in DOMAIN specialCasesGlobal
           \/ SubSeq(W, i + 1, i + L) \in DOMAIN syllableDict}

\* the largest of a non-empty set of lengths
Largest(S) == CHOOSE L \in S : \A M \in S : M <= L

\* the segment is the entry of the key of length L at its position, the
\* special case before the syllable dictionary, normalized as it is emitted
EmitsEntry(W, seg, L) ==
    /\ seg.to = seg.from + L
    /\ IF seg.syl \in DOMAIN specialCasesGlobal
       THEN seg.path = "special" /\ seg.trans = NFC(specialCasesGlobal[seg.syl])
       ELSE seg.path = "syllable" /\ seg.trans = NFC(syllableDict[seg.syl])

\* C19: maximal matching: at every scan position i of the word scanner, if
\* among the lengths 1..min(|W|-i, 8) that the orphan rule does not exclude
\* some length cuts a key of the special cases or the syllable dictionary,
\* the scanner emits the entry of the largest such length (the special case
\* before the syllable dictionary) and advances by exactly that length;
\* it takes a rule-based path only when there is no such length.
C19_MaximalMatching ==
    Returned("ComprehensiveTransliterate")
        => \A k \in 1..Len(segs) :
              IF KeyLengths(call.word, segs[k].from) # {}
              THEN EmitsEntry(call.word, segs[k], Largest(KeyLengths(call.word, segs[k].from)))
              ELSE segs[k].path \in {"matcher", "builder", "single"}

\* C19 witness: the scanner emitted a key of two or more code points at a
\* position where a shorter key starts too, and a rule-based segment elsewhere
C19_Witness ==
    /\ Returned("ComprehensiveTransliterate")
    /\ \E k \in 1..Len(segs) :
          /\ segs[k].path \in {"special", "syllable"}
          /\ segs[k].to - segs[k].from >= 2
          /\ Cardinality(KeyLengths(call.word, segs[k].from)) >= 2
    /\ \E k \in 1..Len(segs) : segs[k].path \in {"matcher", "builder", "single"}

\* the segments cover W left to right: the first starts at 0, each starts
\* where the one before it ended, each holds at least one code point, none
\* ends beyond |W| and the last ends at |W|
CoversWord(W, segments) ==
    /\ Len(W) > 0 => Len(segments) > 0 /\ segments[1].from = 0
                     /\ segments[Len(segments)].to = Len(W)
    /\ \A k \in 1..Len(segments) :
          /\ segments[k].to >= segments[k].from + 1
          /\ segments[k].to <= Len(W)
          /\ k > 1 => segments[k].from = segments[k - 1].to

\* C20: progress and coverage of the word loops: every round of the loops
\* of ComprehensiveTransliterate and ExtractSyllables moves the position
\* forward by at least one code point and never beyond |W|, so the
\* segments of the scanner cover W left to right, each code point in
\* exactly one segment, and the syllables ExtractSyllables returns are
\* non-empty and concatenate to exactly W.
C20_ProgressAndCoverage ==
    /\ (Returned("ComprehensiveTransliterate") /\ call.word \notin DOMAIN specialCasesGlobal
            /\ call.word \notin DOMAIN syllableDict)
          => CoversWord(call.word, segs)
    /\ Returned("ExtractSyllables")
          => /\ \A k \in 1..Len(ret[1]) : ret[1][k] # <<>>
             /\ Join(ret[1]) = call.word

\* C20 witness: ExtractSyllables returned two or more syllables, one of them
\* the single code point at which the extractor reported an end equal to
\* the start
C20_Witness ==
    /\ Returned("ExtractSyllables")
    /\ Len(ret[1]) >= 2
    /\ \E k \in 1..Len(call.word) :
          /\ findSyllableEndImproved(call.word, k - 1) = k - 1
          /\ \E n \in 1..Len(ret[1]) :
                ret[1][n] = <<call.word[k]>> /\ Len(Join(SubSeq(ret[1], 1, n))) = k
(***************************************************************************)
(* Properties of the syllable extractors                                   *)
(***************************************************************************)
\* C30 (as claimed): the rule-based syllable extractor always advances: at
\* every start position i < |W|, findSyllableEndImproved and
\* findSyllableEndComprehensive return an end e with i < e <= |W|.
C30_ExtractorAdvances ==
    (Returned("ExtractSyllables") \/ Returned("ComprehensiveTransliterate"))
        => \A i \in 0..(Len(call.word) - 1) :
              /\ i < findSyllableEndImproved(call.word, i)
              /\ findSyllableEndImproved(call.word, i) <= Len(call.word)
              /\ i < findSyllableEndComprehensive(call.word, i)
              /\ findSyllableEndComprehensive(call.word, i) <= Len(call.word)

(***************************************************************************)
(* Properties of the comprehensive parser and builder                      *)
(***************************************************************************)
\* parseThaiSyllable returned
ParserReturned == pc \in {"parsed", "built"} /\ call.fn = "parseThaiSyllable"

\* the code points the parser reads: the syllable without silent consonants
ParserInput == RemoveSilentConsonants(call.syl)

\* the index before the first consonant of the parser's input
AfterLeading(runes) == IF runes # <<>> /\ isLeadingVowel(runes[1]) THEN 1 ELSE 0

\* the conditions (a), (b), (c) on the consonants at p+1 and p+2
MayBeSecondInitial(runes, p) ==
    \/ <<runes[p + 1], runes[p + 2]>> \in DOMAIN clusters
    \/ runes[p + 1] = "HO_HIP" /\ runes[p + 2] \in {"NO_NU", "MO_MA", "LO_LING", "WO_WAEN", "YO_YAK"}
    \/ /\ runes[p + 2] = "RO_RUA"
       /\ Len(runes) >= p + 3
       /\ runes[p + 3] \in {"SARA_A", "SARA_AA"}

\* C21 (as claimed): second initial consonant: where two consonants follow
\* the optional leading vowel, the parser records the second as initial2
\* if and only if the pair is a key of clusters, or it is HO HIP before one
\* of NO NU, MO MA, LO LING, WO WAEN, YO YAK, or the second is RO RUA and
\* SARA A or SARA AA comes right after it.
C21_SecondInitial ==
    (/\ ParserReturned
     /\ Len(ParserInput) >= AfterLeading(ParserInput) + 2
     /\ isConsonant(ParserInput[AfterLeading(ParserInput) + 1])
     /\ isConsonant(ParserInput[AfterLeading(ParserInput) + 2]))
        => (ret[1].Initial2 # "" <=> MayBeSecondInitial(ParserInput, AfterLeading(ParserInput)))

\* the code points held by the fields of a parsed record
FieldCodePoints(cs) ==
    ({cs.LeadingVowel, cs.Initial1, cs.Initial2, cs.Vowel1, cs.Tone, cs.Final1, cs.Final2}
        \cup {cs.Vowel2[k] : k \in 1..Len(cs.Vowel2)}
        \cup {cs.Silent[k] : k \in 1..Len(cs.Silent)}) \ {""}

\* a code point that is no consonant, vowel, tone mark or special mark
Unknown(r) ==
    ~(isConsonant(r) \/ isVowel(r) \/ isLeadingVowel(r) \/ isToneMark(r)
        \/ r \in {"MAITAIKHU", "THANTHAKHAT", "NIKHAHIT", "MAIYAMOK"})

\* C25 (as claimed): unknown code points in the parser: parseThaiSyllable
\* returns a record, every code point of its input that is no consonant,
\* vowel, tone mark or special mark is in the record's Silent field, and
\* every code point left after silent-consonant stripping is in some field
\* of the record.
C25_UnknownAbsorbed ==
    ParserReturned
        => \A k \in 1..Len(ParserInput) :
              /\ Unknown(ParserInput[k])
                    => \E n \in 1..Len(ret[1].Silent) : ret[1].Silent[n] = ParserInput[k]
              /\ ParserInput[k] \in FieldCodePoints(ret[1])

\* buildPaiboonFromSyllable returned; ret[2] is what it computed
BuilderReturned == pc = "built" /\ call.fn = "parseThaiSyllable"

\* dead by the final sound: a stop final, or a short vowel and no final
DeadSyllable(vowelSound, finalSound) ==
    \/ finalSound \in {<<"p">>, <<"t">>, <<"k">>}
    \/ finalSound = <<>> /\ ~isLongVowel(vowelSound)

\* C22 (as claimed): builder tone follows the tone calculator: the tone the
\* builder applies to a parsed syllable with an initial and a vowel is the
\* tone of the rule table, and of calculateToneNum, on the syllable's tone
\* class, liveness, vowel length and tone mark; a low-class syllable with a
\* long vowel, a p/t/k final and no tone mark gets falling tone.
C22_BuilderToneByTable ==
    (BuilderReturned /\ ret[2].initialSound # <<>> /\ ret[2].vowelSound # <<>>)
        => /\ ret[2].toneNum
                 = calculateToneNum(ret[2].toneClass,
                                    ~DeadSyllable(ret[2].vowelSound, ret[2].finalSound),
                                    ret[2].toneMark, isLongVowel(ret[2].vowelSound))
           /\ (/\ ret[2].toneClass = "low" /\ ret[2].toneMark = ""
               /\ isLongVowel(ret[2].vowelSound)
               /\ ret[2].finalSound \in {<<"p">>, <<"t">>, <<"k">>})
                 => ret[2].toneNum = 3

\* the vowel sound claimed for each medial spelling after leading SARA E
VowelAfterE ==
    {<<<<"SARA_II", "YO_YAK">>, <<"i", "i", "a">>>>, <<<<"SARA_II", "YO_YAK", "WO_WAEN">>, <<"i", "a", "o">>>>, <<<<"SARA_UEE", "O_ANG">>, <<"u_bar", "u_bar", "a">>>>, <<<<"SARA_AA">>, <<"a", "o">>>>,
     <<<<"SARA_I">>, <<"schwa", "schwa">>>>, <<<<"MAITAIKHU">>, <<"e">>>>, <<<<"O_ANG">>, <<"schwa", "schwa">>>>, <<<<"O_ANG", "SARA_A">>, <<"schwa">>>>,
     <<<<"SARA_AA", "SARA_A">>, <<"open_o">>>>, <<<<"SARA_A">>, <<"e">>>>, <<<<>>, <<"e", "e">>>>}

\* C23 (as claimed): builder vowel decisions for leading SARA E: for a
\* syllable spelled SARA E, one consonant and a medial spelling of the
\* table, the builder's vowel sound is the table's sound for that spelling.
C23_VowelAfterE ==
    (BuilderReturned /\ call.syl \in SyllablesWithE)
        => \A e \in VowelAfterE :
              SubSeq(call.syl, 3, Len(call.syl)) = e[1] => ret[2].vowelSound = e[2]

(***************************************************************************)
(* Properties of the pattern matcher                                       *)
(***************************************************************************)
\* improvedTransliterate returned with a matching template; ret[2] is what
\* the template computed
MatcherReturned == pc = "matched" /\ call.fn = "improvedTransliterate" /\ ret[1] # <<>>

\* C24 (as claimed): closed-syllable adjustment: when a matched template's
\* vowel ends in open-o open-o and the final consonant has a non-empty
\* romanization, the matcher's output before tone is the initial, the
\* template vowel with its trailing open-o open-o replaced by one short o,
\* and the final; nothing of the replaced vowel remains.
C24_ClosedSyllableAdjustment ==
    (/\ MatcherReturned
     /\ HasSuffix(ret[2].vowelSound, <<"open_o", "open_o">>)
     /\ ret[2].finalSound # <<>>)
        => ret[2].base
              = ret[2].initialSound
                   \o SubSeq(ret[2].vowelSound, 1, Len(ret[2].vowelSound) - 2)
                   \o <<"o">> \o ret[2].finalSound

(***************************************************************************)
(* Properties of both rule paths                                           *)
(***************************************************************************)
\* the tone of a dead syllable without tone mark: high after a low-class
\* initial, low after a mid- or high-class initial
DeadTone(toneClass) == IF toneClass = "low" THEN 2 ELSE 1

\* C26 (as claimed): short open syllables are dead for tone: a syllable
\* with a short vowel, no final consonant and no tone mark gets low tone
\* with a mid- or high-class initial and high tone with a low-class
\* initial, on the matcher path and on the builder path.
C26_ShortOpenIsDead ==
    /\ (MatcherReturned /\ call.syl \in ShortOpenSyllables)
          => ret[2].toneNum = DeadTone(ret[2].toneClass)
    /\ (BuilderReturned /\ call.syl \in ShortOpenSyllables)
          => ret[2].toneNum = DeadTone(ret[2].toneClass)

\* one consonant, an optional tone mark, O ANG and nothing after it
OpenWithO(syl) ==
    \/ Len(syl) = 2 /\ isConsonant(syl[1]) /\ syl[2] = "O_ANG"
    \/ Len(syl) = 3 /\ isConsonant(syl[1]) /\ isToneMark(syl[2]) /\ syl[3] = "O_ANG"

\* the romanization has the long vowel and no final sound
LongOpenO(detail) ==
    /\ detail.vowelSound = <<"open_o", "open_o">>
    /\ detail.finalSound = <<>>
    /\ detail.base = detail.initialSound \o <<"open_o", "open_o">>

\* C27 (as claimed): open syllable with O ANG as vowel: a syllable spelled
\* as one consonant, an optional tone mark and O ANG is romanized by the
\* rule path, the matcher and after it the parser and builder, with the
\* long vowel open-o open-o and no final sound, with or without tone mark.
C27_OpenSyllableWithO ==
    /\ (MatcherReturned /\ OpenWithO(call.syl)) => LongOpenO(ret[2])
    /\ (BuilderReturned /\ OpenWithO(call.syl) /\ improvedTransliterate(call.syl) = <<>>)
          => LongOpenO(ret[2])

\* improvedTransliterate has returned
MatcherActed == pc = "matched" /\ call.fn = "improvedTransliterate"

\* the patterns that match and that no matching pattern is sorted before,
\* whatever the sort does with patterns that compare equal
EarliestMatching(ms) ==
    {k \in DOMAIN ms :
        /\ ms[k].match
        /\ \A j \in DOMAIN ms :
              ms[j].match => ~PatternLess(sortedVowelPatterns[j], sortedVowelPatterns[k])}

\* two patterns that the sort may put in either order
Tied(j, k) ==
    /\ j # k
    /\ ~PatternLess(sortedVowelPatterns[j], sortedVowelPatterns[k])
    /\ ~PatternLess(sortedVowelPatterns[k], sortedVowelPatterns[j])

\* C28 (as claimed): matcher determinism: the result of the matcher for a
\* syllable is the romanization of the first pattern, by rune length
\* descending and then priority descending, that consumes the whole
\* syllable, and the empty string when there is none; patterns of equal
\* rune length and equal priority that match the same syllable give the
\* same romanization, so the order the sort gives to them does not matter.
C28_MatcherDeterminism ==
    MatcherActed =>
        LET Determined(ms, matching) ==
                /\ matching = {} => ret[1] = <<>>
                /\ \A k \in EarliestMatching(ms) : ms[k].result = ret[1]
                /\ \A j \in matching : \A k \in matching :
                      Tied(j, k) => ms[j].result = ms[k].result
            Over(ms) == Determined(ms, {k \in DOMAIN ms : ms[k].match})
        IN  Over(PatternMatches(RemoveSilentConsonants(call.syl)))

\* the matcher has answered with a pattern that is tied with another one
C28_Witness ==
    /\ MatcherActed
    /\ ret[1] # <<>>
    /\ \E j \in DOMAIN sortedVowelPatterns : \E k \in DOMAIN sortedVowelPatterns :
          /\ Tied(j, k)
          /\ sortedVowelPatterns[j].pattern = ret[2].pattern

\* TransliterateWordWithSyllables has returned for a word that is not in
\* the word dictionary
AlignedCall ==
    /\ pc = "done"
    /\ call.fn = "TransliterateWordWithSyllables"
    /\ call.word \notin DOMAIN dictionary

\* the syllables of the list at the places in picked, in the order of the list
PickedFrom(syllables, picked) ==
    LET F[n \in 0..Len(syllables)] ==
            IF n = 0 THEN <<>>
            ELSE IF n \in picked THEN Append(F[n - 1], syllables[n])
            ELSE F[n - 1]
    IN  F[Len(syllables)]

\* wordSyllables was selected from the supplied list
SelectedFromList(wordSyllables, syllables) ==
    \E picked \in SUBSET (1..Len(syllables)) : wordSyllables = PickedFrom(syllables, picked)

\* C29 (as claimed): syllable alignment in TransliterateWordWithSyllables:
\* for a word that is not in the word dictionary and any supplied list of
\* syllables, the syllables that are transliterated concatenate to the
\* word, in order: they are syllables selected from the list that cover the
\* word from its first to its last code point, or the list is discarded
\* and they are ExtractSyllables(word).
C29_SyllableAlignment ==
    AlignedCall =>
        /\ Join(ret[2]) = call.word
        /\ \/ SelectedFromList(ret[2], call.syllables)
           \/ ret[2] = ExtractSyllables(call.word)

\* a list with a wrong or an extra syllable whose selected syllables cover
\* the word
C29_Witness ==
    /\ AlignedCall
    /\ Len(ret[2]) >= 2
    /\ Len(ret[2]) < Len(call.syllables)
    /\ \A n \in 1..Len(ret[2]) : ret[2][n] # <<>>
    /\ ret[2] = MatchedSyllablesOnly(call.word, call.syllables)

\* a list that covers only a part of the word is replaced by
\* ExtractSyllables(word)
C29_WitnessReplaced ==
    /\ AlignedCall
    /\ MatchSyllables(call.word, call.syllables, 0, <<>>).currentPos \in 1..(Len(call.word) - 1)
    /\ ret[2] = ExtractSyllables(call.word)
====
